---- MODULE Spec2Model ----
(***************************************************************************)
(* A model of the rendevo-sdk HTTP client: BaseClient (token fields, the   *)
(* retry loop of request(), one attempt of executeRequest(), the verb      *)
(* methods), the AuthAPI and UsersAPI wrappers and the RendevoClient       *)
(* facade that links the wrappers' token state.                            *)
(*                                                                         *)
(* JavaScript values are records tagged by `kind`.  A string is a tuple of *)
(* words, so that String.prototype.includes is computed as a search for a  *)
(* contiguous run of words and the empty string is the empty tuple.        *)
(***************************************************************************)
EXTENDS Integers, Sequences, FiniteSets, TLC

VARIABLES
    env,           \* process.env / globalThis markers read by request()
    config,        \* the ClientConfig given to the RendevoClient constructor
    token,         \* BaseClient.token of each wrapper
    refreshToken,  \* BaseClient.refreshToken of each wrapper
    calls,         \* the calls of the caller: one record per call slot
    usersDirect,   \* history: a token method was called on client.users itself
    scenario       \* which part of the input space this behaviour explores

vars == <<env, config, token, refreshToken, calls, usersDirect, scenario>>

-----------------------------------------------------------------------------
(* JavaScript values *)

Undefined == [kind |-> "undefined"]
JNull == [kind |-> "null"]
Str(w) == [kind |-> "string", v |-> w]
Num(n) == [kind |-> "number", v |-> n]
Bool(b) == [kind |-> "boolean", v |-> b]
Obj(f) == [kind |-> "object", f |-> f]
Arr(items) == [kind |-> "array", items |-> items]

\* typeof x
TypeOf(x) == IF x.kind \in {"null", "array"} THEN "object" ELSE x.kind

\* if (x) ...: undefined, null, "", 0 and false are falsy
Truthy(x) ==
    CASE x.kind = "undefined" -> FALSE
      [] x.kind = "null" -> FALSE
      [] x.kind = "string" -> x.v # <<>>
      [] x.kind = "number" -> x.v # 0
      [] x.kind = "boolean" -> x.v
      [] OTHER -> TRUE

\* typeof data === 'object' && data !== null
IsNonNullObject(x) == TypeOf(x) = "object" /\ x.kind # "null"

\* 'name' in data, for a non-null object (an array has no named field)
HasField(x, name) == x.kind = "object" /\ name \in DOMAIN x.f

\* x.name: undefined when the property is absent (also on a string, a number
\* or a boolean); the caller guards against null and undefined
Prop(x, name) ==
    IF x.kind = "object" /\ name \in DOMAIN x.f THEN x.f[name] ELSE Undefined

\* s.includes(pat), on tuples of words
Includes(s, pat) ==
    \E i \in 1..(Len(s) - Len(pat) + 1) : SubSeq(s, i, i + Len(pat) - 1) = pat

\* new Date().toISOString()
NowISO == Str(<<"now">>)

-----------------------------------------------------------------------------
(* Errors *)

\* new Error(message)
GenericError(msg) == [class |-> "Error", name |-> "Error", message |-> msg]

\* the text of an array element in Array.prototype.join
ElementText(x) ==
    CASE x.kind = "string" -> x.v
      [] x.kind \in {"null", "undefined"} -> <<>>
      [] x.kind \in {"number", "boolean"} -> <<ToString(x.v)>>
      [] OTHER -> <<"[object Object]">>

\* items.join(','): the separator is a word of its own
RECURSIVE Join(_)
Join(items) ==
    IF items = <<>> THEN <<>>
    ELSE IF Len(items) = 1 THEN ElementText(items[1])
    ELSE ElementText(items[1]) \o <<",">> \o Join(Tail(items))

\* String(x) as the Error constructor applies it to its message argument
ToMessage(x) ==
    CASE x.kind = "string" -> x.v
      [] x.kind = "array" -> Join(x.items)
      [] x.kind = "undefined" -> <<>>
      [] x.kind = "null" -> <<"null">>
      [] x.kind = "number" -> <<ToString(x.v)>>
      [] x.kind = "boolean" -> <<ToString(x.v)>>
      [] OTHER -> <<"[object Object]">>

\* a slip of the typed error: its statusCode is the one the payload claims
StatusCodeFromPayload(statusCode, response) ==
    [class |-> "RendevoAPIError", name |-> "RendevoAPIError",
     message |-> ToMessage(Prop(response, "message")),
     statusCode |-> IF Prop(response, "statusCode").kind = "number"
                    THEN Prop(response, "statusCode").v ELSE statusCode,
     response |-> response]

\* new RendevoAPIError(statusCode, response): message is response.message
RendevoAPIError(statusCode, response) ==
    [class |-> "RendevoAPIError", name |-> "RendevoAPIError",
     message |-> ToMessage(Prop(response, "message")),
     statusCode |-> statusCode, response |-> response]

ErrorClasses == {"Error", "TypeError", "SyntaxError", "DOMException", "RendevoAPIError"}

\* error instanceof Error
InstanceOfError(e) == e.class \in ErrorClasses

\* error instanceof RendevoAPIError
InstanceOfAPIError(e) == e.class = "RendevoAPIError"

-----------------------------------------------------------------------------
(* BaseClient: constructor *)

DefaultTimeout == 10000

\* { ...a, ...b }: the properties of b win
Spread(a, b) == [k \in DOMAIN a \cup DOMAIN b |-> IF k \in DOMAIN b THEN b[k] ELSE a[k]]

\* config.baseURL.replace(/\/$/, ''): the base address is a tuple of path
\* pieces, a trailing "/" being a piece of its own
BaseURL(cfg) ==
    IF Len(cfg.baseURL) > 0 /\ cfg.baseURL[Len(cfg.baseURL)] = "/"
    THEN SubSeq(cfg.baseURL, 1, Len(cfg.baseURL) - 1)
    ELSE cfg.baseURL

\* config.timeout || 10000
ConfiguredTimeout(cfg) == IF Truthy(cfg.timeout) THEN cfg.timeout.v ELSE DefaultTimeout

\* a slip of the constructor: the default Content-Type is spread last
DefaultContentTypeLast(cfg) == Spread(cfg.headers, [ContentType |-> <<"application/json">>])

\* { 'Content-Type': 'application/json', ...config.headers }
DefaultHeaders(cfg) == Spread([ContentType |-> <<"application/json">>], cfg.headers)

-----------------------------------------------------------------------------
(* BaseClient.isRetryableError *)

\* a slip of isRetryableError: client errors are retried too
ClientErrorsRetried(error) ==
    IF InstanceOfAPIError(error) THEN error.statusCode >= 400
    ELSE IF InstanceOfError(error)
    THEN \/ Includes(error.message, <<"Network", "error">>)
         \/ Includes(error.message, <<"fetch", "failed">>)
         \/ Includes(error.message, <<"ECONNREFUSED">>)
    ELSE FALSE

\* a slip of isRetryableError: the statusCode of the error's payload decides
RetryOnPayloadStatus(error) ==
    IF InstanceOfAPIError(error)
    THEN IF Prop(error.response, "statusCode").kind = "number"
         THEN Prop(error.response, "statusCode").v >= 500
         ELSE error.statusCode >= 500
    ELSE IF InstanceOfError(error)
    THEN \/ Includes(error.message, <<"Network", "error">>)
         \/ Includes(error.message, <<"fetch", "failed">>)
         \/ Includes(error.message, <<"ECONNREFUSED">>)
    ELSE FALSE

\* a slip of isRetryableError: the 'Network error' marker is not looked for
NetworkErrorNotMarked(error) ==
    IF InstanceOfAPIError(error) THEN error.statusCode >= 500
    ELSE IF InstanceOfError(error)
    THEN \/ Includes(error.message, <<"fetch", "failed">>)
         \/ Includes(error.message, <<"ECONNREFUSED">>)
    ELSE FALSE

IsRetryableError(error) ==
    IF InstanceOfAPIError(error) THEN error.statusCode >= 500
    ELSE IF InstanceOfError(error)
    THEN \/ Includes(error.message, <<"Network", "error">>)
         \/ Includes(error.message, <<"fetch", "failed">>)
         \/ Includes(error.message, <<"ECONNREFUSED">>)
    ELSE FALSE

-----------------------------------------------------------------------------
(* BaseClient.executeRequest: one attempt *)

Return(v) == [kind |-> "return", value |-> v]
Throw(e) == [kind |-> "throw", error |-> e]

\* a slip of the attempt: the headers are assembled without reading
\* this.token
TokenNotReadAgain(cfg, options, tok) == Spread(DefaultHeaders(cfg), options.headers)

\* a slip of the header merge: the per-call headers are spread last
CallerHeadersLast(cfg, options, tok) ==
    LET withToken == IF Truthy(tok)
                     THEN Spread(DefaultHeaders(cfg), [Authorization |-> <<"Bearer">> \o tok.v])
                     ELSE DefaultHeaders(cfg)
    IN  Spread(withToken, options.headers)

\* the headers given to fetch: defaults, then the per-call headers, then the
\* Authorization header when this.token is truthy
AssembleHeaders(cfg, options, tok) ==
    LET merged == Spread(DefaultHeaders(cfg), options.headers)
    IN  IF Truthy(tok)
        THEN Spread(merged, [Authorization |-> <<"Bearer">> \o tok.v])
        ELSE merged

\* options.timeout || this.timeout
TimerMs(cfg, options) ==
    IF Truthy(options.timeout) THEN options.timeout.v ELSE ConfiguredTimeout(cfg)

\* a slip of response.ok: a 3xx status counts as ok
RedirectsOk(status) == status >= 200 /\ status <= 399

\* response.ok
ResponseOk(status) == status >= 200 /\ status <= 299

\* !contentType?.includes('application/json')
NotJson(contentType) ==
    IF contentType.kind = "string"
    THEN ~Includes(contentType.v, <<"application/json">>)
    ELSE TRUE

\* options.method || 'GET'
MethodOrGet(method) == IF Truthy(method) THEN method ELSE Str(<<"GET">>)

\* a slip of the synthesized payload: the text of a string body is dropped
RawTextDropped(endpoint, method, status, data) ==
    Obj([success |-> Bool(FALSE),
         statusCode |-> Num(status),
         timestamp |-> NowISO,
         path |-> Str(<<endpoint>>),
         method |-> MethodOrGet(method),
         message |-> Str(<<"An", "error", "occurred">>)])

\* the payload built when a non-2xx body is not error-shaped
SynthesizedPayload(endpoint, method, status, data) ==
    Obj([success |-> Bool(FALSE),
         statusCode |-> Num(status),
         timestamp |-> NowISO,
         path |-> Str(<<endpoint>>),
         method |-> MethodOrGet(method),
         message |-> IF TypeOf(data) = "string" THEN data
                     ELSE Str(<<"An", "error", "occurred">>)])

\* a slip of the try block: on a 2xx response the error shape is looked for
\* before the envelope shape, and such a body is wrapped
ErrorShapeTestedFirst(endpoint, method, resp) ==
    IF NotJson(resp.contentType)
    THEN Throw(GenericError(
            <<"Invalid", "response", "format:", "expected", "JSON", "but", "got">>
            \o (IF Truthy(resp.contentType) THEN resp.contentType.v ELSE <<"unknown">>)))
    ELSE IF ~resp.parsable
    THEN Throw([class |-> "SyntaxError", name |-> "SyntaxError", message |-> resp.parseError])
    ELSE LET data == resp.json IN
         IF ~ResponseOk(resp.status)
         THEN IF /\ IsNonNullObject(data)
                 /\ HasField(data, "message")
                 /\ HasField(data, "statusCode")
              THEN Throw(RendevoAPIError(resp.status, data))
              ELSE Throw(RendevoAPIError(resp.status,
                        SynthesizedPayload(endpoint, method, resp.status, data)))
         ELSE IF /\ IsNonNullObject(data)
                 /\ HasField(data, "data")
                 /\ HasField(data, "success")
                 /\ ~(HasField(data, "message") /\ HasField(data, "statusCode"))
              THEN Return(data)
              ELSE Return(Obj([success |-> Bool(TRUE), data |-> data, timestamp |-> NowISO]))

\* the body of the try block, from the settled fetch to its return or throw
TryBlock(endpoint, method, resp) ==
    IF NotJson(resp.contentType)
    THEN Throw(GenericError(
            <<"Invalid", "response", "format:", "expected", "JSON", "but", "got">>
            \o (IF Truthy(resp.contentType) THEN resp.contentType.v ELSE <<"unknown">>)))
    ELSE IF ~resp.parsable
    THEN Throw([class |-> "SyntaxError", name |-> "SyntaxError", message |-> resp.parseError])
    ELSE LET data == resp.json IN
         IF ~ResponseOk(resp.status)
         THEN IF /\ IsNonNullObject(data)
                 /\ HasField(data, "message")
                 /\ HasField(data, "statusCode")
              THEN Throw(RendevoAPIError(resp.status, data))
              ELSE Throw(RendevoAPIError(resp.status,
                        SynthesizedPayload(endpoint, method, resp.status, data)))
         ELSE IF /\ IsNonNullObject(data)
                 /\ HasField(data, "data")
                 /\ HasField(data, "success")
              THEN Return(data)
              ELSE Return(Obj([success |-> Bool(TRUE), data |-> data, timestamp |-> NowISO]))

\* a slip of the catch block: only a CORS message is normalized
NormalizedOnlyForCors(cfg, endpoint, ms, error) ==
    IF InstanceOfAPIError(error) THEN error
    ELSE IF InstanceOfError(error)
    THEN IF error.name = "AbortError"
         THEN GenericError(<<"Request", "timeout", ":", "The", "request", "to", endpoint,
                             "took", "longer", "than", ToString(ms), "ms">>)
         ELSE IF Includes(error.message, <<"CORS">>)
         THEN GenericError(<<"Network", "error", ":", "Unable", "to", "reach">>
                           \o BaseURL(cfg)
                           \o <<".", "This", "may", "be", "due", "to", "CORS", "policy",
                                "or", "network", "connectivity", "issues", ".">>)
         ELSE error
    ELSE GenericError(<<"An", "unexpected", "error", "occurred">>)

\* a slip of the catch block: the timeout message quotes the configured
\* timeout, not the one of the call
ConfiguredTimeoutQuoted(cfg, endpoint, ms, error) ==
    IF InstanceOfAPIError(error) THEN error
    ELSE IF InstanceOfError(error)
    THEN IF error.name = "AbortError"
         THEN GenericError(<<"Request", "timeout", ":", "The", "request", "to", endpoint,
                             "took", "longer", "than", ToString(ConfiguredTimeout(cfg)),
                             "ms">>)
         ELSE IF \/ Includes(error.message, <<"CORS">>)
                 \/ Includes(error.message, <<"Network", "request", "failed">>)
         THEN GenericError(<<"Network", "error", ":", "Unable", "to", "reach">>
                           \o BaseURL(cfg)
                           \o <<".", "This", "may", "be", "due", "to", "CORS", "policy",
                                "or", "network", "connectivity", "issues", ".">>)
         ELSE error
    ELSE GenericError(<<"An", "unexpected", "error", "occurred">>)

\* the catch block: what is thrown for a caught value
CatchBlock(cfg, endpoint, ms, error) ==
    IF InstanceOfAPIError(error) THEN error
    ELSE IF InstanceOfError(error)
    THEN IF error.name = "AbortError"
         THEN GenericError(<<"Request", "timeout", ":", "The", "request", "to", endpoint,
                             "took", "longer", "than", ToString(ms), "ms">>)
         ELSE IF \/ Includes(error.message, <<"CORS">>)
                 \/ Includes(error.message, <<"Network", "request", "failed">>)
         THEN GenericError(<<"Network", "error", ":", "Unable", "to", "reach">>
                           \o BaseURL(cfg)
                           \o <<".", "This", "may", "be", "due", "to", "CORS", "policy",
                                "or", "network", "connectivity", "issues", ".">>)
         ELSE error
    ELSE GenericError(<<"An", "unexpected", "error", "occurred">>)

\* clearTimeout(timeoutId): a timer that has fired stays fired
ClearTimeout(timer) == IF timer = "live" THEN "cleared" ELSE timer

\* a slip of the attempt: the catch block does not clear the timer
NotClearedInCatch(timer, outcome) ==
    IF outcome.t = "response" THEN ClearTimeout(timer) ELSE timer

\* the timer once the attempt has left executeRequest: cleared after the
\* await of fetch when fetch resolved (line 146), in the catch block when
\* fetch rejected (line 191)
TimerAfterFetch(timer, outcome) ==
    IF outcome.t = "response" THEN ClearTimeout(timer) ELSE ClearTimeout(timer)

\* the result of an attempt whose fetch settled with `outcome`
ExecuteRequest(cfg, endpoint, method, ms, outcome) ==
    IF outcome.t = "response"
    THEN LET r == TryBlock(endpoint, method, outcome)
         IN  IF r.kind = "throw"
             THEN Throw(CatchBlock(cfg, endpoint, ms, r.error))
             ELSE r
    ELSE Throw(CatchBlock(cfg, endpoint, ms, outcome.error))

-----------------------------------------------------------------------------
(* The verb methods, the wrappers' operations and their inputs *)

Wrappers == {"auth", "users"}

\* RendevoClient._apis without this.auth: the wrappers the patched auth
\* methods forward to
LinkedApis == Wrappers \ {"auth"}

\* body ? JSON.stringify(body) : undefined
JsonStringify(x) == [kind |-> "string", v |-> <<"JSON">>, of |-> x]
SerializeBody(body) == IF Truthy(body) THEN JsonStringify(body) ELSE Undefined

NoOptions == [headers |-> <<>>, timeout |-> Undefined]

\* each operation: the wrapper it is a method of, the verb method it calls,
\* its endpoint, and whether the verb takes a body
Ops ==
    [get    |-> [api |-> "users", verb |-> "GET",    endpoint |-> "/test",          hasBody |-> FALSE],
     post   |-> [api |-> "auth",  verb |-> "POST",   endpoint |-> "/test",          hasBody |-> TRUE],
     patch  |-> [api |-> "users", verb |-> "PATCH",  endpoint |-> "/test",          hasBody |-> TRUE],
     put    |-> [api |-> "auth",  verb |-> "PUT",    endpoint |-> "/test",          hasBody |-> TRUE],
     delete |-> [api |-> "users", verb |-> "DELETE", endpoint |-> "/test",          hasBody |-> FALSE],
     login    |-> [api |-> "auth", verb |-> "POST", endpoint |-> "/auth/login",    hasBody |-> TRUE],
     register |-> [api |-> "auth", verb |-> "POST", endpoint |-> "/auth/register", hasBody |-> TRUE],
     refresh  |-> [api |-> "auth", verb |-> "POST", endpoint |-> "/auth/refresh",  hasBody |-> TRUE],
     logout   |-> [api |-> "auth", verb |-> "POST", endpoint |-> "/auth/logout",   hasBody |-> TRUE]]

VerbOps == {"get", "post", "patch", "put", "delete"}
AuthOps == {"login", "register", "refresh", "logout"}

\* the values a caller passes: tokens, request bodies, per-call options
NumTokens == 2
AccessTokens == {Str(<<"T" \o ToString(i)>>) : i \in 1..NumTokens} \cup {Str(<<>>)}
RefreshTokens == {Str(<<"R2">>)}
Dto == Obj([email |-> Str(<<"user@example.com">>)])
\* body?: unknown: no body, an object, and the values that are not
\* undefined yet falsy
RequestBodies == {Undefined, Dto, JNull, Num(0), Bool(FALSE), Str(<<>>)}
CallOptions ==
    {NoOptions,
     [headers |-> [Authorization |-> <<"Basic", "caller">>], timeout |-> Undefined],
     [headers |-> [ContentType |-> <<"text/plain">>], timeout |-> Num(50)],
     [headers |-> <<>>, timeout |-> Num(0)]}

\* the environments: no marker, or one of the three test markers
Envs ==
    {[NODE_ENV |-> "production", VITEST |-> "", vitestGlobal |-> FALSE],
     [NODE_ENV |-> "test",       VITEST |-> "", vitestGlobal |-> FALSE],
     [NODE_ENV |-> "production", VITEST |-> "true", vitestGlobal |-> FALSE],
     [NODE_ENV |-> "production", VITEST |-> "", vitestGlobal |-> TRUE]}

Configs ==
    {[baseURL |-> <<"http://api">>, timeout |-> Undefined, headers |-> <<>>],
     [baseURL |-> <<"http://api", "/">>, timeout |-> Num(30000),
      headers |-> [Authorization |-> <<"Basic", "config">>,
                   ContentType |-> <<"application/xml">>]]}

\* a slip of the test-mode detection: the global vitest object is not looked at
GlobalMarkerIgnored(e) == e.NODE_ENV = "test" \/ e.VITEST = "true"

\* process.env.NODE_ENV === 'test' || process.env.VITEST === 'true' ||
\* typeof globalThis.vitest !== 'undefined'
IsTestEnv(e) == e.NODE_ENV = "test" \/ e.VITEST = "true" \/ e.vitestGlobal

-----------------------------------------------------------------------------
(* What the far end can do to an attempt *)

AuthResponse(t, r) == Obj([access_token |-> Str(<<t>>), refresh_token |-> Str(<<r>>)])
AuthResponseNoRefresh(t) == Obj([access_token |-> Str(<<t>>)])
Timestamp == Str(<<"2024-01-01T00:00:00.000Z">>)

DataValues == {Str(<<"d">>), JNull, AuthResponse("T1", "R1"), AuthResponseNoRefresh("T2")}

\* bodies of the envelope shape {success, data, timestamp}
EnvelopeBodies ==
    {Obj([success |-> Bool(TRUE), data |-> d, timestamp |-> Timestamp]) : d \in DataValues}

\* bodies carrying only some of the three envelope fields
PartialBodies ==
    {Obj([success |-> Bool(FALSE), data |-> Str(<<"d">>)]),
     Obj([data |-> Str(<<"d">>), timestamp |-> Timestamp]),
     Obj([success |-> Bool(TRUE)])}

\* bodies with message and statusCode (the message a string, or the list of
\* messages of a validation failure), and with message alone
ErrorBodies ==
    {Obj([message |-> Str(<<"User", "not", "found">>), statusCode |-> Num(404)]),
     Obj([message |-> Arr(<<Str(<<"email", "invalid">>), Str(<<"name", "required">>)>>),
          statusCode |-> Num(400)]),
     Obj([message |-> Str(<<"Internal", "error">>), statusCode |-> Num(500),
          success |-> Bool(FALSE), timestamp |-> Timestamp,
          path |-> Str(<<"/test">>), method |-> Str(<<"GET">>)]),
     Obj([message |-> Str(<<"Rejected">>), statusCode |-> Num(409),
          success |-> Bool(FALSE), data |-> Str(<<"d">>)]),
     Obj([message |-> Str(<<"only", "message">>)])}

RawBodies == {Str(<<"oops">>), JNull, AuthResponse("T1", "R1"), AuthResponseNoRefresh("T2")}

JsonBodies == EnvelopeBodies \cup PartialBodies \cup ErrorBodies \cup RawBodies

Statuses == {200, 299, 300, 400, 404, 499, 500, 599}

JsonContentTypes ==
    {Str(<<"application/json">>), Str(<<"application/json", ";", "charset=utf-8">>)}
\* a missing content type, an empty one, and content types naming another
\* format; a header value is whatever text the far end chose
OtherContentTypes ==
    {JNull, Str(<<>>), Str(<<"text/html">>), Str(<<"text/plain", ";", "profile=", "CORS">>)}

Response(status, contentType, body) ==
    [t |-> "response", status |-> status, contentType |-> contentType,
     parsable |-> TRUE, json |-> body]
Unparsable(status, contentType, msg) ==
    [t |-> "response", status |-> status, contentType |-> contentType,
     parsable |-> FALSE, parseError |-> msg]
Rejected(e) == [t |-> "throw", error |-> e]

\* messages of the SyntaxError of response.json(): the engine quotes the text
\* it could not parse
ParseErrors ==
    {<<"Unexpected", "token", "<", "in", "JSON">>,
     <<"Unexpected", "token", "N", ",", "Network", "error", "is", "not", "valid", "JSON">>}

\* what fetch rejects with when no timer fired
FetchErrors ==
    {[class |-> "TypeError", name |-> "TypeError", message |-> <<"fetch", "failed">>],
     [class |-> "TypeError", name |-> "TypeError", message |-> <<"Network", "request", "failed">>],
     [class |-> "TypeError", name |-> "TypeError",
      message |-> <<"blocked", "by", "CORS", "policy">>],
     [class |-> "Error", name |-> "Error", message |-> <<"connect", "ECONNREFUSED", "127.0.0.1">>],
     [class |-> "Error", name |-> "Error", message |-> <<"Network", "error">>],
     [class |-> "Error", name |-> "Error", message |-> <<"socket", "hang", "up">>],
     [class |-> "NonError"]}

\* what fetch rejects with when controller.abort() was called
AbortError ==
    [class |-> "DOMException", name |-> "AbortError",
     message |-> <<"This", "operation", "was", "aborted">>]

ErrorBody404 == Obj([message |-> Str(<<"User", "not", "found">>), statusCode |-> Num(404)])
OkEnvelope == Obj([success |-> Bool(TRUE), data |-> Str(<<"d">>), timestamp |-> Timestamp])
Json == Str(<<"application/json">>)
FetchFailed == [class |-> "TypeError", name |-> "TypeError", message |-> <<"fetch", "failed">>]

\* The scenarios partition the exploration; each varies some of the inputs
\* in full and keeps the others small:
\*   "retry"   every status, content type, parse failure and fetch error,
\*             under every environment
\*   "shape"   every JSON body under every status, for every verb method
\*   "request" the configurations, per-call options, request bodies and
\*             access tokens
\*   "auth"    the wrapper methods of AuthAPI and the token methods of the
\*             facade, of client.auth and of client.users
\*   "conc"    two calls in flight at once
\*   "live"    one call at a time, every way an attempt can end, for the
\*             behaviours in which fetch and the delays do settle
SeqScenarios == {"retry", "shape", "request", "auth"}
Scenarios == SeqScenarios \cup {"conc", "live"}

Slots == {"c1", "c2"}
SlotsOf(scn) == IF scn = "conc" THEN Slots ELSE {"c1"}

NonTestEnv == [NODE_ENV |-> "production", VITEST |-> "", vitestGlobal |-> FALSE]
EnvsOf(scn) ==
    CASE scn = "retry" -> Envs
      [] scn = "conc" -> {NonTestEnv}
      [] OTHER -> {NonTestEnv, [NODE_ENV |-> "test", VITEST |-> "", vitestGlobal |-> FALSE]}

PlainConfig == [baseURL |-> <<"http://api">>, timeout |-> Undefined, headers |-> <<>>]
ConfigsOf(scn) == IF scn = "request" THEN Configs ELSE {PlainConfig}

OutcomesOf(scn) ==
    CASE scn = "retry" ->
            {Response(s, ct, ErrorBody404) : s \in Statuses \ {200, 299}, ct \in JsonContentTypes}
            \cup {Response(200, Json, OkEnvelope)}
            \cup {Response(s, ct, JNull) : s \in {200, 404, 500}, ct \in OtherContentTypes}
            \cup {Unparsable(s, Json, m) : s \in {200, 404, 500}, m \in ParseErrors}
            \cup {Unparsable(200, Str(<<"text/html">>), <<"Unexpected", "token", "<", "in", "JSON">>)}
            \cup {Rejected(e) : e \in FetchErrors}
      [] scn = "shape" ->
            {Response(s, Json, b) : s \in Statuses, b \in JsonBodies}
      [] scn = "request" ->
            {Response(200, Json, OkEnvelope), Response(503, Json, ErrorBody404),
             Rejected(FetchFailed),
             Rejected([class |-> "TypeError", name |-> "TypeError",
                       message |-> <<"blocked", "by", "CORS", "policy">>])}
      [] scn = "conc" ->
            {Response(200, Json, AuthResponse("T1", "R1")),
             Response(401, Json, ErrorBody404),
             Response(503, Json, ErrorBody404)}
      [] scn = "live" ->
            {Response(200, Json, AuthResponse("T1", "R1")),
             Response(200, Json, JNull),
             Response(404, Json, ErrorBody404),
             Response(503, Json, ErrorBody404),
             Response(200, Str(<<"text/html">>), JNull),
             Unparsable(200, Json, <<"Unexpected", "token", "<", "in", "JSON">>),
             Rejected(FetchFailed),
             Rejected([class |-> "NonError"])}
      [] OTHER ->
            {Response(200, Json, AuthResponse("T1", "R1")),
             Response(200, Json, Obj([success |-> Bool(TRUE),
                                      data |-> AuthResponseNoRefresh("T2"),
                                      timestamp |-> Timestamp])),
             Response(200, Json, JNull),
             Response(401, Json, ErrorBody404),
             Response(503, Json, ErrorBody404),
             Rejected(FetchFailed)}

Kind(op, options, body) == [op |-> op, options |-> options, body |-> body]

\* the calls a caller makes: the operation, its per-call options, its body
CallKindsOf(scn) ==
    CASE scn = "retry" -> {Kind("get", NoOptions, Undefined), Kind("post", NoOptions, Dto)}
      [] scn = "shape" ->
            {Kind(op, NoOptions, IF Ops[op].hasBody THEN Dto ELSE Undefined) : op \in VerbOps}
      [] scn = "request" ->
            {Kind("get", o, Undefined) : o \in CallOptions}
            \cup {Kind(op, NoOptions, b) : op \in {"post", "patch", "put"}, b \in RequestBodies}
            \cup {Kind("delete", NoOptions, Undefined)}
      [] scn = "auth" -> {Kind(op, NoOptions, Dto) : op \in AuthOps}
                         \cup {Kind("get", NoOptions, Undefined),
                               Kind("get", [headers |-> [Authorization |-> <<"Basic", "caller">>],
                                            timeout |-> Undefined], Undefined)}
      [] scn = "live" -> {Kind(op, NoOptions, Dto) : op \in {"post", "login", "logout"}}
                         \cup {Kind("get", NoOptions, Undefined)}
      [] OTHER -> {Kind(op, NoOptions, Dto) : op \in {"login", "logout"}}
                  \cup {Kind("get", NoOptions, Undefined)}

\* the access tokens the caller sets
AccessTokensOf(scn) == IF scn \in {"conc", "live"} THEN {Str(<<"T2">>)} ELSE AccessTokens

\* on which objects the caller calls the token methods
TokenTargetsOf(scn) ==
    CASE scn = "auth" -> {"facade", "auth", "users"}
      [] scn \in {"request", "conc", "live"} -> {"facade"}
      [] OTHER -> {}

-----------------------------------------------------------------------------
(* RendevoClient: the token methods, as patched by _linkTokenManagement *)

\* BaseClient.setToken / clearToken / setRefreshToken / clearRefreshToken on
\* one wrapper: the assignment to its own field
SetField(field, w, v) == [field EXCEPT ![w] = v]

\* a slip of _linkTokenManagement: the patched method does not forward
NotForwarded(field, v) == SetField(field, "auth", v)

\* this.auth.setToken and the three others after _linkTokenManagement: the
\* original method on auth, then the same method on every other wrapper
LinkedSet(field, v) ==
    LET own == SetField(field, "auth", v)
    IN  [w \in Wrappers |-> IF w \in LinkedApis THEN v ELSE own[w]]

\* a slip of _linkTokenManagement: the methods of every wrapper are patched,
\* so that a call on users reaches auth as well
LinkedBothWays(field, target, v) == [w \in Wrappers |-> v]

\* a token method called on `target`: the facade's methods call this.auth's
TokenWrite(field, target, v) ==
    IF target \in {"facade", "auth"} THEN LinkedSet(field, v) ELSE SetField(field, target, v)

\* RendevoClient.getToken / getRefreshToken
FacadeGetToken == token["auth"]
FacadeGetRefreshToken == refreshToken["auth"]

\* the wrapper whose own fields a token method called on `target` assigns
\* and reads
WrapperOf(target) == IF target = "users" THEN "users" ELSE "auth"

\* BaseClient.getToken / getRefreshToken called on `target`, given the fields
GetToken(tok, target) == tok[WrapperOf(target)]
GetRefreshToken(rtok, target) == rtok[WrapperOf(target)]

-----------------------------------------------------------------------------
(* The calls *)

\* a slip of the loop bound: one attempt more
OneMoreAttempt == 3 + 1

MaxRetries == 3

NoRequest == [kind |-> "none"]
NoOutcome == [t |-> "none"]
NoResult == [kind |-> "none"]

IdleCall ==
    [pc |-> "idle", op |-> "get", options |-> NoOptions, body |-> Undefined,
     isTestEnv |-> FALSE, attempt |-> 0, sent |-> NoRequest, timer |-> "none",
     timerMs |-> 0,
     lastError |-> Undefined, log |-> <<>>, last |-> NoOutcome, attemptResult |-> NoResult,
     result |-> NoResult]

Endpoint(call) == Ops[call.op].endpoint
Method(call) == Str(<<Ops[call.op].verb>>)
Api(call) == Ops[call.op].api

\* a slip of the backoff: the exponent is off by one
DelayOffByOne(attempt) == (2 ^ (attempt + 1)) * 1000

\* Math.pow(2, attempt) * 1000
DelayMs(attempt) == (2 ^ attempt) * 1000

\* a slip of request(): the body is given to fetch on the first attempt only
BodySentOnce(call) ==
    [call EXCEPT
        !.pc = "fetching",
        !.sent = [kind |-> "request",
                  url |-> BaseURL(config) \o <<Endpoint(call)>>,
                  method |-> Method(call),
                  headers |-> AssembleHeaders(config, call.options, token[Api(call)]),
                  body |-> IF call.attempt = 0 THEN SerializeBody(call.body) ELSE Undefined],
        !.timer = "live",
        !.timerMs = TimerMs(config, call.options),
        !.log = Append(@, [e |-> "attempt", ms |-> 0])]

\* executeRequest up to its await of fetch: the url and the headers are
\* built from the wrapper's fields as they are now, the timer is started
\* with options.timeout || this.timeout
BeginAttempt(call) ==
    [call EXCEPT
        !.pc = "fetching",
        !.sent = [kind |-> "request",
                  url |-> BaseURL(config) \o <<Endpoint(call)>>,
                  method |-> Method(call),
                  headers |-> AssembleHeaders(config, call.options, token[Api(call)]),
                  body |-> SerializeBody(call.body)],
        !.timer = "live",
        !.timerMs = TimerMs(config, call.options),
        !.log = Append(@, [e |-> "attempt", ms |-> 0])]

\* a slip of the verb methods: the envelope is returned, not its data
EnvelopeReturned(att) == att

\* response.data of the verb methods
VerbResult(att) == IF att.kind = "return" THEN Return(Prop(att.value, "data")) ELSE att

\* reading a property of null or undefined throws a TypeError
PropertyReadThrows(data) == data.kind \in {"null", "undefined"}
CannotRead == [class |-> "TypeError", name |-> "TypeError",
               message |-> <<"Cannot", "read", "properties">>]

\* a slip of the verb methods: a thrown error is caught and undefined returned
ErrorSwallowed(op, vr) ==
    IF vr.kind = "throw" THEN Return(Undefined)
    ELSE IF op \in {"login", "register", "refresh"} /\ PropertyReadThrows(vr.value)
    THEN Throw(CannotRead)
    ELSE vr

\* what the wrapper method gives its caller, from the verb method's result
OpResult(op, vr) ==
    IF vr.kind = "return" /\ op \in {"login", "register", "refresh"}
       /\ PropertyReadThrows(vr.value)
    THEN Throw(CannotRead)
    ELSE vr

\* a slip of logout: the tokens are cleared whether or not the call resolved
ClearedOnFailure(op, vr) ==
    IF op = "logout" THEN LinkedSet(token, Undefined)
    ELSE IF OpResult(op, vr).kind # "return" THEN token
    ELSE IF op \in {"login", "register", "refresh"}
    THEN LinkedSet(token, Prop(vr.value, "access_token"))
    ELSE token

\* a guard that logout does not have: the tokens are cleared only when no
\* login has resolved since the logout began
LogoutGuarded(op, vr) ==
    IF OpResult(op, vr).kind # "return" THEN token
    ELSE CASE op \in {"login", "register", "refresh"} ->
                LinkedSet(token, Prop(vr.value, "access_token"))
           [] op = "logout" ->
                IF \E d \in Slots : /\ calls[d].op = "login"
                                    /\ calls[d].pc = "done"
                                    /\ calls[d].result.kind = "return"
                THEN token
                ELSE LinkedSet(token, Undefined)
           [] OTHER -> token

\* a slip of the wrappers: every method stores an access_token it is given
AnyAccessTokenStored(op, vr) ==
    IF OpResult(op, vr).kind # "return" THEN token
    ELSE IF op = "logout" THEN LinkedSet(token, Undefined)
    ELSE IF Prop(vr.value, "access_token") # Undefined
    THEN LinkedSet(token, Prop(vr.value, "access_token"))
    ELSE token

\* the access tokens after the wrapper method has run on the verb's result
TokenAfterOp(op, vr) ==
    IF OpResult(op, vr).kind # "return" THEN token
    ELSE CASE op \in {"login", "register", "refresh"} ->
                LinkedSet(token, Prop(vr.value, "access_token"))
           [] op = "logout" -> LinkedSet(token, Undefined)
           [] OTHER -> token

\* a slip of register: the refresh token of the response is not stored
RegisterKeepsRefreshToken(op, vr) ==
    IF OpResult(op, vr).kind # "return" THEN refreshToken
    ELSE CASE op = "refresh" -> LinkedSet(refreshToken, Prop(vr.value, "refresh_token"))
           [] op = "logout" -> LinkedSet(refreshToken, Undefined)
           [] OTHER -> refreshToken

\* a slip of login: the refresh_token of the response is stored too
LoginStoresRefreshToken(op, vr) ==
    IF OpResult(op, vr).kind # "return" THEN refreshToken
    ELSE CASE op \in {"login", "register", "refresh"} ->
                LinkedSet(refreshToken, Prop(vr.value, "refresh_token"))
           [] op = "logout" -> LinkedSet(refreshToken, Undefined)
           [] OTHER -> refreshToken

\* a slip of logout: the refresh token is not cleared
LogoutKeepsRefreshToken(op, vr) ==
    IF OpResult(op, vr).kind # "return" THEN refreshToken
    ELSE CASE op \in {"register", "refresh"} ->
                LinkedSet(refreshToken, Prop(vr.value, "refresh_token"))
           [] OTHER -> refreshToken

\* the refresh tokens after the wrapper method has run on the verb's result
RefreshTokenAfterOp(op, vr) ==
    IF OpResult(op, vr).kind # "return" THEN refreshToken
    ELSE CASE op \in {"register", "refresh"} ->
                LinkedSet(refreshToken, Prop(vr.value, "refresh_token"))
           [] op = "logout" -> LinkedSet(refreshToken, Undefined)
           [] OTHER -> refreshToken

\* request() hands `att` to the verb method, the verb method to the wrapper
\* method, and the wrapper method settles the caller's promise
Settle(c, call, att) ==
    /\ calls' = [calls EXCEPT ![c] =
                    [call EXCEPT !.pc = "done", !.sent = NoRequest,
                                 !.attemptResult = att,
                                 !.result = OpResult(call.op, VerbResult(att))]]
    /\ token' = TokenAfterOp(call.op, VerbResult(att))
    /\ refreshToken' = RefreshTokenAfterOp(call.op, VerbResult(att))

\* a slip of the retry loop: the last attempt is not told apart, so that a
\* retryable error of the third attempt is followed by a delay too
LastAttemptNotToldApart(c, call, att) ==
    IF call.isTestEnv \/ att.kind = "return"
    THEN Settle(c, call, att)
    ELSE IF ~IsRetryableError(att.error)
    THEN Settle(c, [call EXCEPT !.lastError = att.error], att)
    ELSE /\ calls' = [calls EXCEPT ![c] =
                        [call EXCEPT !.pc = "delaying",
                                     !.lastError = att.error,
                                     !.attemptResult = att,
                                     !.log = Append(@, [e |-> "delay",
                                                        ms |-> DelayMs(call.attempt)])]]
         /\ UNCHANGED <<token, refreshToken>>

\* a slip of the retry loop: a success that follows a failed attempt is
\* given up for the error kept from that attempt
EarlierErrorReported(c, call, att) ==
    IF call.isTestEnv THEN Settle(c, call, att)
    ELSE IF att.kind = "return"
    THEN Settle(c, call, IF call.lastError # Undefined THEN Throw(call.lastError) ELSE att)
    ELSE IF call.attempt = MaxRetries - 1 \/ ~IsRetryableError(att.error)
    THEN Settle(c, [call EXCEPT !.lastError = att.error], att)
    ELSE /\ calls' = [calls EXCEPT ![c] =
                        [call EXCEPT !.pc = "delaying",
                                     !.lastError = att.error,
                                     !.attemptResult = att,
                                     !.log = Append(@, [e |-> "delay",
                                                        ms |-> DelayMs(call.attempt)])]]
         /\ UNCHANGED <<token, refreshToken>>

\* a slip of the retry loop: when it gives up it throws the error it had
\* kept from the attempt before
EarlierErrorThrown(c, call, att) ==
    IF call.isTestEnv \/ att.kind = "return"
    THEN Settle(c, call, att)
    ELSE IF call.attempt = MaxRetries - 1 \/ ~IsRetryableError(att.error)
    THEN Settle(c, call, IF call.lastError # Undefined THEN Throw(call.lastError) ELSE att)
    ELSE /\ calls' = [calls EXCEPT ![c] =
                        [call EXCEPT !.pc = "delaying",
                                     !.lastError = att.error,
                                     !.attemptResult = att,
                                     !.log = Append(@, [e |-> "delay",
                                                        ms |-> DelayMs(call.attempt)])]]
         /\ UNCHANGED <<token, refreshToken>>

\* the retry loop of request() after an attempt ended with `att`
AfterAttempt(c, call, att) ==
    IF call.isTestEnv \/ att.kind = "return"
    THEN Settle(c, call, att)
    ELSE IF call.attempt = MaxRetries - 1 \/ ~IsRetryableError(att.error)
    THEN Settle(c, [call EXCEPT !.lastError = att.error], att)
    ELSE /\ calls' = [calls EXCEPT ![c] =
                        [call EXCEPT !.pc = "delaying",
                                     !.lastError = att.error,
                                     !.attemptResult = att,
                                     !.log = Append(@, [e |-> "delay",
                                                        ms |-> DelayMs(call.attempt)])]]
         /\ UNCHANGED <<token, refreshToken>>

-----------------------------------------------------------------------------
(* Actions *)

\* a verb method or a wrapper method is called: request() reads the test
\* markers and runs the first attempt up to its fetch
StartCall(c, op, options, body) ==
    /\ calls[c].pc = "idle"
    /\ calls' = [calls EXCEPT ![c] =
                    BeginAttempt([IdleCall EXCEPT !.op = op, !.options = options,
                                                  !.body = body,
                                                  !.isTestEnv = IsTestEnv(env)])]
    /\ UNCHANGED <<env, config, token, refreshToken, usersDirect, scenario>>

\* the fetch of the attempt in flight settles before the timer fires
FetchSettles(c, outcome) ==
    /\ calls[c].pc = "fetching"
    /\ LET call == [calls[c] EXCEPT !.timer = TimerAfterFetch(@, outcome), !.last = outcome]
       IN  AfterAttempt(c, call,
                        ExecuteRequest(config, Endpoint(call), Method(call),
                                       TimerMs(config, call.options), outcome))
    /\ UNCHANGED <<env, config, usersDirect, scenario>>

\* a slip of the attempt: one AbortController is shared by the attempts of
\* the client, so that a timer that fires aborts every fetch in flight
SharedControllerAborted(c) ==
    /\ calls[c].pc = "fetching"
    /\ calls[c].timer = "live"
    /\ calls' = [d \in Slots |->
                    IF calls[d].pc # "fetching" THEN calls[d]
                    ELSE LET att == ExecuteRequest(config, Endpoint(calls[d]), Method(calls[d]),
                                                   TimerMs(config, calls[d].options),
                                                   Rejected(AbortError))
                         IN  [calls[d] EXCEPT !.pc = "done", !.sent = NoRequest,
                                              !.timer = IF d = c THEN "fired" ELSE "cleared",
                                              !.last = Rejected(AbortError),
                                              !.lastError = att.error,
                                              !.attemptResult = att,
                                              !.result = att]]
    /\ UNCHANGED <<env, config, token, refreshToken, usersDirect, scenario>>

\* the timer fires first: controller.abort() makes fetch reject
TimerFires(c) ==
    /\ calls[c].pc = "fetching"
    /\ calls[c].timer = "live"
    /\ LET call == [calls[c] EXCEPT !.timer = TimerAfterFetch("fired", Rejected(AbortError)),
                                    !.last = Rejected(AbortError)]
       IN  AfterAttempt(c, call,
                        ExecuteRequest(config, Endpoint(call), Method(call),
                                       TimerMs(config, call.options), Rejected(AbortError)))
    /\ UNCHANGED <<env, config, usersDirect, scenario>>

\* the backoff delay elapses: the loop increments attempt and, while it is
\* below maxRetries, runs the next attempt; past it, the fallback throw
DelayElapses(c) ==
    /\ calls[c].pc = "delaying"
    /\ LET call == [calls[c] EXCEPT !.attempt = @ + 1]
       IN  IF call.attempt < MaxRetries
           THEN /\ calls' = [calls EXCEPT ![c] = BeginAttempt(call)]
                /\ UNCHANGED <<token, refreshToken>>
           ELSE Settle(c, [call EXCEPT !.log = Append(@, [e |-> "fallback", ms |-> 0])],
                       Throw(IF call.lastError # Undefined THEN call.lastError
                             ELSE GenericError(<<"Request", "failed", "after", "retries">>)))
    /\ UNCHANGED <<env, config, usersDirect, scenario>>

\* the caller takes the settled result; the slot is free for its next call
Collect(c) ==
    /\ calls[c].pc = "done"
    /\ calls' = [calls EXCEPT ![c] = IdleCall]
    /\ UNCHANGED <<env, config, token, refreshToken, usersDirect, scenario>>

SetToken(target, t) ==
    /\ token' = TokenWrite(token, target, t)
    /\ usersDirect' = (usersDirect \/ target = "users")
    /\ UNCHANGED <<env, config, refreshToken, calls, scenario>>

\* a slip of the header assembly: the headers given to fetch track the
\* token field, so that clearing the token strips the Authorization header
\* of the attempts in flight
InFlightHeadersStripped(target) ==
    /\ token' = TokenWrite(token, target, Undefined)
    /\ usersDirect' = (usersDirect \/ target = "users")
    /\ calls' = [c \in Slots |->
                    IF calls[c].pc = "fetching"
                    THEN [calls[c] EXCEPT !.sent.headers =
                            [k \in DOMAIN @ \ {"Authorization"} |-> @[k]]]
                    ELSE calls[c]]
    /\ UNCHANGED <<env, config, refreshToken, scenario>>

ClearToken(target) ==
    /\ token' = TokenWrite(token, target, Undefined)
    /\ usersDirect' = (usersDirect \/ target = "users")
    /\ UNCHANGED <<env, config, refreshToken, calls, scenario>>

\* a slip of setRefreshToken: it assigns this.token as well
AccessTokenOverwritten(target, t) ==
    /\ refreshToken' = TokenWrite(refreshToken, target, t)
    /\ token' = TokenWrite(token, target, t)
    /\ usersDirect' = (usersDirect \/ target = "users")
    /\ UNCHANGED <<env, config, calls, scenario>>

SetRefreshToken(target, t) ==
    /\ refreshToken' = TokenWrite(refreshToken, target, t)
    /\ usersDirect' = (usersDirect \/ target = "users")
    /\ UNCHANGED <<env, config, token, calls, scenario>>

ClearRefreshToken(target) ==
    /\ refreshToken' = TokenWrite(refreshToken, target, Undefined)
    /\ usersDirect' = (usersDirect \/ target = "users")
    /\ UNCHANGED <<env, config, token, calls, scenario>>

Init ==
    /\ scenario \in SeqScenarios
    /\ env \in EnvsOf(scenario)
    /\ config \in ConfigsOf(scenario)
    /\ token = [w \in Wrappers |-> Undefined]
    /\ refreshToken = [w \in Wrappers |-> Undefined]
    /\ calls = [c \in Slots |-> IdleCall]
    /\ usersDirect = FALSE

Next ==
    \/ \E c \in SlotsOf(scenario), k \in CallKindsOf(scenario) :
          StartCall(c, k.op, k.options, k.body)
    \/ \E c \in Slots, outcome \in OutcomesOf(scenario) : FetchSettles(c, outcome)
    \/ \E c \in Slots : TimerFires(c)
    \/ \E c \in Slots : DelayElapses(c)
    \/ \E c \in Slots : Collect(c)
    \/ \E target \in TokenTargetsOf(scenario), t \in AccessTokensOf(scenario) :
          SetToken(target, t)
    \/ \E target \in TokenTargetsOf(scenario) : ClearToken(target)
    \/ \E target \in TokenTargetsOf(scenario), t \in RefreshTokens : SetRefreshToken(target, t)
    \/ \E target \in TokenTargetsOf(scenario) : ClearRefreshToken(target)

Spec == Init /\ [][Next]_vars

\* the same client with two calls in flight at once
InitConc ==
    /\ scenario = "conc"
    /\ env \in EnvsOf(scenario)
    /\ config \in ConfigsOf(scenario)
    /\ token = [w \in Wrappers |-> Undefined]
    /\ refreshToken = [w \in Wrappers |-> Undefined]
    /\ calls = [c \in Slots |-> IdleCall]
    /\ usersDirect = FALSE

SpecConc == InitConc /\ [][Next]_vars

-----------------------------------------------------------------------------
(* Vocabulary of the properties *)

Events(call, e) == SelectSeq(call.log, LAMBDA x : x.e = e)
Attempts(call) == Len(Events(call, "attempt"))
Delays(call) == [i \in 1..Len(Events(call, "delay")) |-> Events(call, "delay")[i].ms]
IsPrefix(s, t) == Len(s) <= Len(t) /\ s = SubSeq(t, 1, Len(s))

\* the attempt of the call has ended (its outcome is in call.last)
AttemptEnded(call) == call.pc \in {"delaying", "done"}

\* the last attempt received a response with a JSON content type and a
\* parsable body
GotJson(call) ==
    /\ call.last.t = "response"
    /\ ~NotJson(call.last.contentType)
    /\ call.last.parsable

ClientErrorStatus(status) == status >= 400 /\ status <= 499
ServerErrorStatus(status) == status >= 500 /\ status <= 599

ThrewTyped(call, status) ==
    /\ call.attemptResult.kind = "throw"
    /\ InstanceOfAPIError(call.attemptResult.error)
    /\ call.attemptResult.error.statusCode = status
    /\ call.result = call.attemptResult

\* this step starts an attempt of call c
AttemptStarts(c) == calls'[c].pc = "fetching" /\ calls[c].pc \in {"idle", "delaying"}

\* this step settles call c
Settles(c) == calls[c].pc \in {"fetching", "delaying"} /\ calls'[c].pc = "done"

AllWrappers(v) == [w \in Wrappers |-> v]

-----------------------------------------------------------------------------
(* C1 *)

\* C1, as stated: in non-test mode, whenever an attempt receives a response
\* whose status is in [400,499], request() has made exactly one attempt, no
\* delay and no retry, and throws a RendevoAPIError with that status.
C1_AnyClientErrorResponseSingleTypedAttempt ==
    \A c \in Slots :
        LET call == calls[c] IN
        (/\ ~call.isTestEnv
         /\ AttemptEnded(call)
         /\ call.last.t = "response"
         /\ ClientErrorStatus(call.last.status))
        => /\ call.pc = "done"
           /\ call.log = <<[e |-> "attempt", ms |-> 0]>>
           /\ ThrewTyped(call, call.last.status)

\* C1, amended: in non-test mode, an attempt that receives a response with
\* JSON content type, a parsable body and a status in [400,499] is the last
\* attempt of its request(): no delay and no retry follow it and request()
\* throws a RendevoAPIError whose statusCode is that status; when it is the
\* first attempt, it is the only event of the call.
C1_ClientErrorNotRetried ==
    \A c \in Slots :
        LET call == calls[c] IN
        (/\ ~call.isTestEnv
         /\ AttemptEnded(call)
         /\ GotJson(call)
         /\ ClientErrorStatus(call.last.status))
        => /\ call.pc = "done"
           /\ call.log[Len(call.log)].e = "attempt"
           /\ Attempts(call) = call.attempt + 1
           /\ ThrewTyped(call, call.last.status)
           /\ (call.attempt = 0 => call.log = <<[e |-> "attempt", ms |-> 0]>>)

C1_Witness ==
    \E c \in Slots :
        /\ ~calls[c].isTestEnv
        /\ calls[c].pc = "done"
        /\ GotJson(calls[c])
        /\ calls[c].last.status = 499
        /\ Attempts(calls[c]) = 1
        /\ ThrewTyped(calls[c], 499)

-----------------------------------------------------------------------------
(* C2 *)

\* C2: in non-test mode a call to request() makes at most 3 attempts, and a
\* call that ends with a RendevoAPIError whose status is in [500,599] (as
\* every call does whose attempts all failed that way) has made exactly 3.
C2_AtMostThreeAttempts ==
    \A c \in Slots :
        LET call == calls[c] IN
        ~call.isTestEnv
        => /\ Attempts(call) <= 3
           /\ (/\ call.pc = "done"
               /\ call.attemptResult.kind = "throw"
               /\ InstanceOfAPIError(call.attemptResult.error)
               /\ ServerErrorStatus(call.attemptResult.error.statusCode))
              => (Attempts(call) = 3 /\ call.result = call.attemptResult)

C2_Witness ==
    \E c \in Slots :
        /\ ~calls[c].isTestEnv
        /\ calls[c].pc = "done"
        /\ Attempts(calls[c]) = 3
        /\ ThrewTyped(calls[c], 500)

-----------------------------------------------------------------------------
(* C3 *)

BackoffSchedule ==
    <<[e |-> "attempt", ms |-> 0], [e |-> "delay", ms |-> 1000],
      [e |-> "attempt", ms |-> 0], [e |-> "delay", ms |-> 2000],
      [e |-> "attempt", ms |-> 0]>>

\* C3: in non-test mode the attempts and delays of a call are a prefix of
\* attempt, 1000 ms, attempt, 2000 ms, attempt: no delay before the first
\* attempt, none after the third, and a call is delaying exactly when its
\* last event is a delay.
C3_BackoffSchedule ==
    \A c \in Slots :
        LET call == calls[c] IN
        ~call.isTestEnv
        => /\ IsPrefix(call.log, BackoffSchedule)
           /\ IsPrefix(Delays(call), <<1000, 2000>>)
           /\ (call.pc = "delaying" <=> (call.log # <<>> /\ call.log[Len(call.log)].e = "delay"))

C3_Witness ==
    \E c \in Slots :
        /\ ~calls[c].isTestEnv
        /\ calls[c].pc = "done"
        /\ calls[c].result.kind = "throw"
        /\ calls[c].log = BackoffSchedule

-----------------------------------------------------------------------------
(* C4 *)

\* C4: when NODE_ENV is test, VITEST is true or a global vitest object
\* exists, a call makes exactly one attempt and no delay, whatever the
\* attempt's outcome, and request() returns or throws what that attempt did.
C4_TestModeSingleAttempt ==
    \A c \in Slots :
        LET call == calls[c] IN
        (/\ (env.NODE_ENV = "test" \/ env.VITEST = "true" \/ env.vitestGlobal)
         /\ call.pc # "idle")
        => /\ call.log = <<[e |-> "attempt", ms |-> 0]>>
           /\ call.pc \in {"fetching", "done"}
           /\ (call.pc = "done"
               => call.attemptResult =
                    ExecuteRequest(config, Endpoint(call), Method(call),
                                   TimerMs(config, call.options), call.last))

C4_Witness ==
    \E c \in Slots :
        /\ env.vitestGlobal
        /\ calls[c].pc = "done"
        /\ ThrewTyped(calls[c], 500)

-----------------------------------------------------------------------------
(* C5, C6 *)

\* the last attempt received a 2xx response with a parsed JSON body
GotOkJson(call) == GotJson(call) /\ ResponseOk(call.last.status)

\* a body of the shape {success, data, timestamp}
EnvelopeShaped(body) ==
    /\ body.kind = "object"
    /\ {"success", "data", "timestamp"} \subseteq DOMAIN body.f

\* C5: for a 2xx JSON response whose body is shaped {success, data,
\* timestamp}, each verb method returns the body's data, not the envelope.
C5_EnvelopeUnwrapped ==
    \A c \in Slots :
        LET call == calls[c] IN
        (/\ call.pc = "done"
         /\ call.op \in VerbOps
         /\ GotOkJson(call)
         /\ EnvelopeShaped(call.last.json))
        => /\ call.result = Return(call.last.json.f["data"])
           /\ call.result.value # call.last.json

C5_Witness ==
    \E c \in Slots :
        /\ calls[c].pc = "done"
        /\ calls[c].op = "patch"
        /\ GotOkJson(calls[c])
        /\ EnvelopeShaped(calls[c].last.json)
        /\ calls[c].result = Return(AuthResponse("T1", "R1"))

\* C6: for a 2xx JSON response whose body is not shaped {success, data,
\* timestamp} (bodies with only some of the three fields included), each
\* verb method returns the whole body.
C6_RawBodyReturned ==
    \A c \in Slots :
        LET call == calls[c] IN
        (/\ call.pc = "done"
         /\ call.op \in VerbOps
         /\ GotOkJson(call)
         /\ ~EnvelopeShaped(call.last.json))
        => call.result = Return(call.last.json)

-----------------------------------------------------------------------------
(* C7 *)

BearerOf(tok) == <<"Bearer">> \o tok.v

\* C7, as stated: an attempt started while the wrapper's token is t sends
\* Authorization: Bearer t, and one started while no token is set sends no
\* Authorization header.
C7_TokenAloneDecidesAuthorization ==
    [][\A c \in Slots :
          AttemptStarts(c)
          => LET tok == token[Api(calls'[c])]
                 h == calls'[c].sent.headers
             IN  IF tok # Undefined
                 THEN "Authorization" \in DOMAIN h /\ h["Authorization"] = BearerOf(tok)
                 ELSE "Authorization" \notin DOMAIN h]_vars

\* the headers the caller supplied, at construction and per call
CallerHeaders(call) == Spread(config.headers, call.options.headers)

\* C7, amended: an attempt started while the wrapper's token is a non-empty
\* string t sends Authorization: Bearer t; one started while the token is
\* undefined or the empty string sends no Bearer header of a token: its
\* Authorization header is the caller-supplied one (per-call before
\* constructor), and is absent when the caller supplied none.
C7_TruthyTokenDecidesAuthorization ==
    [][\A c \in Slots :
          AttemptStarts(c)
          => LET tok == token[Api(calls'[c])]
                 h == calls'[c].sent.headers
                 own == CallerHeaders(calls'[c])
             IN  IF tok # Undefined /\ tok # Str(<<>>)
                 THEN "Authorization" \in DOMAIN h /\ h["Authorization"] = BearerOf(tok)
                 ELSE /\ "Authorization" \in DOMAIN h <=> "Authorization" \in DOMAIN own
                      /\ "Authorization" \in DOMAIN h
                            => h["Authorization"] = own["Authorization"]]_vars

C7_Witness ==
    \E c \in Slots :
        /\ calls[c].pc = "fetching"
        /\ calls[c].attempt > 0
        /\ "Authorization" \in DOMAIN calls[c].options.headers
        /\ token[Api(calls[c])] = Str(<<"T2">>)
        /\ calls[c].sent.headers["Authorization"] = <<"Bearer", "T2">>

-----------------------------------------------------------------------------
(* C8 *)

\* C8: when a logout settles, both tokens of every wrapper are cleared if
\* its remote call resolved, and are left as they were, the error rethrown
\* as it is, if the remote call threw.
C8_LogoutClearsOnlyOnSuccess ==
    [][\A c \in Slots :
          (Settles(c) /\ calls[c].op = "logout")
          => IF calls'[c].attemptResult.kind = "return"
             THEN /\ token' = AllWrappers(Undefined)
                  /\ refreshToken' = AllWrappers(Undefined)
                  /\ calls'[c].result.kind = "return"
             ELSE /\ token' = token
                  /\ refreshToken' = refreshToken
                  /\ calls'[c].result = calls'[c].attemptResult]_vars

C8_Witness ==
    \E c \in Slots :
        /\ calls[c].op = "logout"
        /\ calls[c].pc = "done"
        /\ calls[c].result.kind = "throw"
        /\ token = AllWrappers(Str(<<"T1">>))
        /\ refreshToken = AllWrappers(Str(<<"R2">>))

-----------------------------------------------------------------------------
(* C9 *)

\* C9: as long as the token methods were called only through the facade
\* and the auth wrapper (login, register, refresh and logout included),
\* every wrapper holds the same access token and the same refresh token,
\* and the facade's getters return them.
C9_WrappersInSync ==
    ~usersDirect
    => \A w \in Wrappers :
          /\ token[w] = token["auth"]
          /\ refreshToken[w] = refreshToken["auth"]
          /\ FacadeGetToken = token[w]
          /\ FacadeGetRefreshToken = refreshToken[w]

C9_Witness ==
    /\ ~usersDirect
    /\ token["users"] = Str(<<"T2">>)
    /\ refreshToken["users"] = Str(<<"R1">>)

-----------------------------------------------------------------------------
(* C10 *)

\* C10: when a login resolves, every wrapper's access token is the
\* response's access_token; when a register or a refresh resolves, every
\* wrapper's access and refresh tokens are the response's access_token and
\* refresh_token.
C10_AuthResponseStored ==
    [][\A c \in Slots :
          (/\ Settles(c)
           /\ calls[c].op \in {"login", "register", "refresh"}
           /\ calls'[c].result.kind = "return")
          => LET data == calls'[c].result.value IN
             /\ token' = AllWrappers(Prop(data, "access_token"))
             /\ calls[c].op \in {"register", "refresh"}
                   => refreshToken' = AllWrappers(Prop(data, "refresh_token"))]_vars

C10_Witness ==
    \E c \in Slots :
        /\ calls[c].op = "register"
        /\ calls[c].pc = "done"
        /\ calls[c].result = Return(AuthResponse("T1", "R1"))
        /\ token = AllWrappers(Str(<<"T1">>))
        /\ refreshToken = AllWrappers(Str(<<"R1">>))

-----------------------------------------------------------------------------
(* C11 *)

\* the last attempt received a non-2xx JSON response whose parsed body is an
\* object with a message field and a statusCode field
GotErrorShaped(call) ==
    /\ AttemptEnded(call)
    /\ GotJson(call)
    /\ ~ResponseOk(call.last.status)
    /\ IsNonNullObject(call.last.json)
    /\ HasField(call.last.json, "message")
    /\ HasField(call.last.json, "statusCode")

\* C11 as stated: for every non-2xx JSON response whose body has a message
\* and a statusCode, the attempt throws a RendevoAPIError whose statusCode is
\* the transport status, whose message is equal to the body's message and
\* whose response is the body.  Violated by a body whose message is not a
\* string: the error's message is a string, the body's message is not.
C11_MessageEqualsBodyMessage ==
    \A c \in Slots :
        GotErrorShaped(calls[c]) =>
            /\ calls[c].attemptResult.kind = "throw"
            /\ InstanceOfAPIError(calls[c].attemptResult.error)
            /\ calls[c].attemptResult.error.statusCode = calls[c].last.status
            /\ Str(calls[c].attemptResult.error.message) = calls[c].last.json.f["message"]
            /\ calls[c].attemptResult.error.response = calls[c].last.json

\* C11, amended: for every non-2xx JSON response whose body has a message
\* and a statusCode, the attempt throws a RendevoAPIError whose statusCode is
\* the transport status (not the one in the body), whose response is the
\* body unchanged, and whose message is the body's message when that is a
\* string and the comma-joined text of it when it is a list of strings.
C11_ErrorShapedBodyTyped ==
    \A c \in Slots :
        GotErrorShaped(calls[c]) =>
            LET e == calls[c].attemptResult.error
                m == calls[c].last.json.f["message"]
            IN  /\ calls[c].attemptResult.kind = "throw"
                /\ InstanceOfAPIError(e)
                /\ e.statusCode = calls[c].last.status
                /\ e.response = calls[c].last.json
                /\ m.kind = "string" => e.message = m.v
                /\ m.kind = "array" =>
                      e.message = m.items[1].v \o <<",">> \o m.items[2].v

\* status 404 with message "User not found" gave statusCode 404 and that
\* message; and a status differing from the body's statusCode was seen
C11_Witness ==
    \E c \in Slots :
        /\ GotErrorShaped(calls[c])
        /\ calls[c].last.status = 404
        /\ calls[c].last.json.f["statusCode"] = Num(500)
        /\ calls[c].attemptResult.error.statusCode = 404
        /\ calls[c].attemptResult.error.message = <<"Internal", "error">>

-----------------------------------------------------------------------------
(* C12 *)

\* the last attempt received a response whose content type is missing or
\* does not indicate JSON
GotNonJson(call) ==
    /\ AttemptEnded(call)
    /\ call.last.t = "response"
    /\ NotJson(call.last.contentType)

\* C12: for every response whose content type is missing or does not
\* indicate JSON, whatever its status, the attempt throws a generic error
\* (an Error that is neither a RendevoAPIError nor the SyntaxError of a parse
\* of the body) whose message names the content type that was observed.
\* Violated by a content type whose text contains "CORS": the catch block
\* replaces the error by the network error, which names no content type.
C12_NonJsonGenericErrorNamesContentType ==
    \A c \in Slots :
        GotNonJson(calls[c]) =>
            /\ calls[c].attemptResult.kind = "throw"
            /\ calls[c].attemptResult.error.class = "Error"
            /\ Truthy(calls[c].last.contentType) =>
                  Includes(calls[c].attemptResult.error.message, calls[c].last.contentType.v)

-----------------------------------------------------------------------------
(* C13 *)

\* the timer of the last attempt fired before its fetch settled
TimedOut(call) == AttemptEnded(call) /\ call.timer = "fired"

\* C13: when the timer of an attempt fires before its fetch settles, the
\* fetch is aborted (it rejects with the AbortError) and the attempt throws a
\* generic error whose message contains "Request timeout", the endpoint and
\* the number of milliseconds the timer of that attempt was started with.
C13_TimeoutErrorNamesEndpointAndTimeout ==
    \A c \in Slots :
        TimedOut(calls[c]) =>
            LET e == calls[c].attemptResult.error
            IN  /\ calls[c].last = Rejected(AbortError)
                /\ calls[c].attemptResult.kind = "throw"
                /\ e.class = "Error"
                /\ Includes(e.message, <<"Request", "timeout">>)
                /\ Includes(e.message, <<Endpoint(calls[c])>>)
                /\ Includes(e.message, <<ToString(calls[c].timerMs)>>)

\* a call with the per-call timeout 50 under a configured timeout of 30000
\* timed out, and its error quotes 50
C13_Witness ==
    \E c \in Slots :
        /\ TimedOut(calls[c])
        /\ calls[c].options.timeout = Num(50)
        /\ config.timeout = Num(30000)
        /\ calls[c].timerMs = 50
        /\ Includes(calls[c].attemptResult.error.message, <<"than", "50", "ms">>)

-----------------------------------------------------------------------------
(* C14 *)

\* C14: every ended attempt either returned an object of envelope shape
\* {success, data, timestamp} or threw an error, never a body of another
\* shape.  Violated by a 2xx body {success, data} without timestamp, which
\* the attempt returns as it is.
C14_EnvelopeOrError ==
    \A c \in Slots :
        AttemptEnded(calls[c]) =>
            \/ /\ calls[c].attemptResult.kind = "return"
               /\ EnvelopeShaped(calls[c].attemptResult.value)
            \/ /\ calls[c].attemptResult.kind = "throw"
               /\ calls[c].attemptResult.error.class \in ErrorClasses

-----------------------------------------------------------------------------
(* C15 *)

\* C15: whichever way an attempt ends (a returned envelope, a non-JSON
\* content type, a parse failure, a typed error, a rejected fetch, an
\* abort), its timer is not live once the attempt has returned or thrown:
\* it was cleared, or it had fired.
C15_NoLiveTimerAfterAttempt ==
    \A c \in Slots :
        AttemptEnded(calls[c]) => calls[c].timer \in {"cleared", "fired"}

\* an attempt whose fetch was rejected while its timer was live has ended
\* with the timer cleared
C15_Witness ==
    \E c \in Slots :
        /\ AttemptEnded(calls[c])
        /\ calls[c].last.t = "throw"
        /\ calls[c].last.error # AbortError
        /\ calls[c].timer = "cleared"

-----------------------------------------------------------------------------
(* C16 *)

\* the message names a network-layer failure
NetworkMarked(msg) ==
    \/ Includes(msg, <<"Network", "error">>)
    \/ Includes(msg, <<"fetch", "failed">>)
    \/ Includes(msg, <<"ECONNREFUSED">>)

\* the last attempt received a JSON content type and a body that
\* response.json() could not parse
GotUnparsable(call) ==
    /\ AttemptEnded(call)
    /\ call.last.t = "response"
    /\ ~NotJson(call.last.contentType)
    /\ ~call.last.parsable

\* C16: in non-test mode, a retry follows a generic error only if its
\* message contains "Network error", "fetch failed" or "ECONNREFUSED"; and an
\* attempt that timed out, received a non-JSON content type or could not
\* parse the body is the only attempt of its request(), whose caller receives
\* that attempt's error.  Violated by a parse failure whose SyntaxError quotes
\* a body text containing "Network error": a retry follows it.
C16_TimeoutFormatParseNeverRetried ==
    \A c \in Slots :
        LET call == calls[c] IN
        ~call.isTestEnv =>
            /\ (call.pc = "delaying" /\ ~InstanceOfAPIError(call.attemptResult.error)) =>
                  NetworkMarked(call.attemptResult.error.message)
            /\ (TimedOut(call) \/ GotNonJson(call) \/ GotUnparsable(call)) =>
                  /\ call.pc = "done"
                  /\ Attempts(call) = 1
                  /\ call.result = call.attemptResult

-----------------------------------------------------------------------------
(* C17 *)

\* request() of the call has failed
RequestFailed(call) == call.pc = "done" /\ call.attemptResult.kind = "throw"

\* what executeRequest throws or returns for the outcome of the last attempt
\* made, computed anew from that outcome
OfLastAttempt(call) ==
    ExecuteRequest(config, Endpoint(call), Method(call), call.timerMs, call.last)

\* C17: when request() fails, what its caller receives is the very error the
\* last attempt made threw, passed on as it is by the verb method and the
\* wrapper method; that attempt is one whose error is not retryable, or the
\* third; the fallback throw after the loop is never what is delivered.
C17_LastErrorDelivered ==
    \A c \in Slots :
        RequestFailed(calls[c]) =>
            /\ calls[c].attemptResult = OfLastAttempt(calls[c])
            /\ calls[c].result = calls[c].attemptResult
            /\ Events(calls[c], "fallback") = <<>>
            /\ ~calls[c].isTestEnv =>
                  \/ ~IsRetryableError(calls[c].attemptResult.error)
                  \/ Attempts(calls[c]) = MaxRetries

\* retries were exhausted and the caller received the third attempt's error,
\* the typed error of a 599 response
C17_Witness ==
    \E c \in Slots :
        /\ RequestFailed(calls[c])
        /\ Attempts(calls[c]) = 3
        /\ IsRetryableError(calls[c].result.error)
        /\ InstanceOfAPIError(calls[c].result.error)
        /\ calls[c].result.error.statusCode = 599

-----------------------------------------------------------------------------
(* C18 *)

\* C18: an attempt that starts while its wrapper's token is a non-empty
\* string t is given to fetch with Authorization: Bearer t; and while the
\* attempt is in flight no step changes the request that was given to fetch,
\* whatever setToken, clearToken or a settling login or logout does to the
\* token in the meantime.
C18_InFlightHeadersFixed ==
    [][\A c \in Slots :
          /\ (AttemptStarts(c) /\ Truthy(token[Api(calls'[c])])) =>
                /\ "Authorization" \in DOMAIN calls'[c].sent.headers
                /\ calls'[c].sent.headers["Authorization"] = BearerOf(token[Api(calls'[c])])
          /\ (calls[c].pc = "fetching" /\ calls'[c].pc = "fetching") =>
                calls'[c].sent = calls[c].sent]_vars

\* a get started just before a logout is still in flight with the old
\* credential after the logout has resolved and cleared the tokens
C18_Witness ==
    \E c, d \in Slots :
        /\ calls[c].pc = "fetching"
        /\ calls[c].op = "get"
        /\ "Authorization" \in DOMAIN calls[c].sent.headers
        /\ calls[c].sent.headers["Authorization"] = <<"Bearer", "T2">>
        /\ token[Api(calls[c])] = Undefined
        /\ calls[d].op = "logout"
        /\ calls[d].pc = "done"
        /\ calls[d].result.kind = "return"

-----------------------------------------------------------------------------
(* C19 *)

\* the value of header k in the last-write-wins merge of the default
\* Content-Type, the constructor's headers, the per-call headers and, when
\* withToken, the Bearer header of tok: the last of them that has k
MergedValue(k, call, tok, withToken) ==
    IF k = "Authorization" /\ withToken THEN BearerOf(tok)
    ELSE IF k \in DOMAIN call.options.headers THEN call.options.headers[k]
    ELSE IF k \in DOMAIN config.headers THEN config.headers[k]
    ELSE <<"application/json">>

MergedKeys(call, withToken) ==
    {"ContentType"} \cup DOMAIN config.headers \cup DOMAIN call.options.headers
    \cup (IF withToken THEN {"Authorization"} ELSE {})

\* the headers given to fetch are that merge
SentMerged(call, tok, withToken) ==
    /\ DOMAIN call.sent.headers = MergedKeys(call, withToken)
    /\ \A k \in MergedKeys(call, withToken) :
          call.sent.headers[k] = MergedValue(k, call, tok, withToken)

\* C19 as stated: the headers of an attempt are the last-write-wins merge of
\* the default Content-Type, the constructor's headers, the per-call headers
\* and, if a token is set, Authorization: Bearer <token>.  Violated after
\* setToken(""): no Bearer header is added for the token that was set.
C19_MergeWithTokenIfSet ==
    [][\A c \in Slots :
          AttemptStarts(c) =>
              LET tok == token[Api(calls'[c])]
              IN  SentMerged(calls'[c], tok, tok # Undefined)]_vars

\* C19, amended: the headers of an attempt are the last-write-wins merge of
\* the default Content-Type, the constructor's headers, the per-call headers
\* and, if the token is a non-empty string, Authorization: Bearer <token>;
\* so a constructor or per-call header overrides the default Content-Type
\* and a non-empty token overrides every caller-supplied Authorization.
C19_MergeWithNonEmptyToken ==
    [][\A c \in Slots :
          AttemptStarts(c) =>
              LET tok == token[Api(calls'[c])]
              IN  SentMerged(calls'[c], tok, tok # Undefined /\ tok # Str(<<>>))]_vars

\* an attempt under constructor headers Content-Type: application/xml and
\* Authorization: Basic config, per-call Content-Type: text/plain and the
\* token T1 is sent with text/plain and Bearer T1
C19_Witness ==
    \E c \in Slots :
        /\ calls[c].pc = "fetching"
        /\ "ContentType" \in DOMAIN config.headers
        /\ "Authorization" \in DOMAIN config.headers
        /\ "ContentType" \in DOMAIN calls[c].options.headers
        /\ token[Api(calls[c])] = Str(<<"T1">>)
        /\ calls[c].sent.headers =
              [ContentType |-> <<"text/plain">>, Authorization |-> <<"Bearer", "T1">>]

-----------------------------------------------------------------------------
(* C20 *)

\* C20: an attempt of post, patch or put is given to fetch with the JSON
\* text of the body when the caller provided one (any value but undefined),
\* and with an undefined body when the caller provided none.  Violated by
\* the bodies null, 0, false and "": they are provided and sent as undefined.
C20_ProvidedBodySerialized ==
    \A c \in Slots :
        (calls[c].pc = "fetching" /\ calls[c].op \in {"post", "patch", "put"}) =>
            IF calls[c].body # Undefined
            THEN calls[c].sent.body = JsonStringify(calls[c].body)
            ELSE calls[c].sent.body = Undefined

-----------------------------------------------------------------------------
(* C21 *)

\* C21: the timer of an attempt is started with the per-call timeout
\* whenever the caller provided one, 0 included, and with the configured
\* timeout otherwise; and a timeout error names that same value.  Violated by
\* the per-call timeout 0: the timer is started with the configured timeout.
C21_PerCallTimeoutWheneverProvided ==
    \A c \in Slots :
        LET call == calls[c] IN
        /\ call.pc = "fetching" =>
              call.timerMs = IF call.options.timeout # Undefined
                             THEN call.options.timeout.v
                             ELSE ConfiguredTimeout(config)
        /\ TimedOut(call) =>
              Includes(call.attemptResult.error.message,
                       <<"than", ToString(call.timerMs), "ms">>)

-----------------------------------------------------------------------------
(* C22 *)

\* the last attempt received a non-2xx JSON response whose parsed body is
\* not an object with both a message field and a statusCode field
GotOtherErrorBody(call) ==
    /\ AttemptEnded(call)
    /\ GotJson(call)
    /\ ~ResponseOk(call.last.status)
    /\ ~GotErrorShaped(call)

\* C22: for every non-2xx JSON response whose body lacks a message or a
\* statusCode, the attempt throws a RendevoAPIError of the transport status
\* whose payload has success false, statusCode the transport status, path
\* the endpoint, method the request's method, and as message the body when
\* it is a string and "An error occurred" otherwise.
C22_SynthesizedPayload ==
    \A c \in Slots :
        GotOtherErrorBody(calls[c]) =>
            LET e == calls[c].attemptResult.error
                body == calls[c].last.json
                text == IF body.kind = "string" THEN body
                        ELSE Str(<<"An", "error", "occurred">>)
            IN  /\ calls[c].attemptResult.kind = "throw"
                /\ InstanceOfAPIError(e)
                /\ e.statusCode = calls[c].last.status
                /\ e.response.kind = "object"
                /\ e.response.f["success"] = Bool(FALSE)
                /\ e.response.f["statusCode"] = Num(calls[c].last.status)
                /\ e.response.f["path"] = Str(<<Endpoint(calls[c])>>)
                /\ e.response.f["method"] = Str(<<Ops[calls[c].op].verb>>)
                /\ e.response.f["message"] = text
                /\ e.message = text.v

\* a 500 whose body is the JSON string "oops", on a post, gave the payload
\* message "oops" and method POST
C22_Witness ==
    \E c \in Slots :
        /\ GotOtherErrorBody(calls[c])
        /\ calls[c].last.status = 500
        /\ calls[c].last.json = Str(<<"oops">>)
        /\ calls[c].op = "post"
        /\ calls[c].attemptResult.error.response.f["message"] = Str(<<"oops">>)
        /\ calls[c].attemptResult.error.response.f["method"] = Str(<<"POST">>)

-----------------------------------------------------------------------------
(* C23 *)

\* this step is a failed attempt of call c (a thrown error, a timeout
\* included, followed by a delay or by the end of the call) or the start of
\* its retry
FailsOrRetries(c) ==
    \/ /\ calls[c].pc = "fetching"
       /\ calls'[c].pc \in {"delaying", "done"}
       /\ calls'[c].attemptResult.kind = "throw"
    \/ /\ calls[c].pc = "delaying"
       /\ calls'[c].pc = "fetching"

\* C23: with two calls in flight on the same client, every step of one call
\* (its start, the settling of its fetch, the firing of its timer, the end
\* of its delay) leaves the other call as it was: its attempt counter, its
\* timer, the request it gave to fetch, its outcome; and a failed attempt, a
\* timeout or a retry of one call changes no token either, so nothing a later
\* attempt of the other call reads.
C23_ConcurrentCallsIndependent ==
    [][\A c, d \in Slots :
          c # d =>
             /\ calls'[c] # calls[c] => calls'[d] = calls[d]
             /\ FailsOrRetries(c) =>
                   /\ calls'[d] = calls[d]
                   /\ token' = token
                   /\ refreshToken' = refreshToken]_vars

\* one call has timed out while the other, in its second attempt, is still
\* in flight with its own timer live
C23_Witness ==
    \E c, d \in Slots :
        /\ c # d
        /\ TimedOut(calls[c])
        /\ calls[c].pc = "done"
        /\ calls[d].pc = "fetching"
        /\ calls[d].attempt = 1
        /\ calls[d].timer = "live"

-----------------------------------------------------------------------------
(* C24 *)

\* the last attempt threw a RendevoAPIError
AttemptThrewTyped(call) ==
    /\ call.attemptResult.kind = "throw"
    /\ InstanceOfAPIError(call.attemptResult.error)

\* the last attempt received a 2xx JSON response whose parsed body is an
\* object with a message field and a statusCode field
GotErrorShapedOn2xx(call) ==
    /\ AttemptEnded(call)
    /\ GotJson(call)
    /\ call.last.status >= 200 /\ call.last.status <= 299
    /\ IsNonNullObject(call.last.json)
    /\ HasField(call.last.json, "message")
    /\ HasField(call.last.json, "statusCode")

-----------------------------------------------------------------------------
(* C25 *)

\* one call at a time on one client, every fetch settling or being aborted
\* by its timer and every backoff delay elapsing: the promises of fetch and
\* of setTimeout are settled by the runtime
InitLive ==
    /\ scenario = "live"
    /\ env \in EnvsOf(scenario)
    /\ config \in ConfigsOf(scenario)
    /\ token = [w \in Wrappers |-> Undefined]
    /\ refreshToken = [w \in Wrappers |-> Undefined]
    /\ calls = [c \in Slots |-> IdleCall]
    /\ usersDirect = FALSE

SpecLive ==
    /\ InitLive
    /\ [][Next]_vars
    /\ \A c \in Slots :
          /\ WF_vars((\E outcome \in OutcomesOf(scenario) : FetchSettles(c, outcome))
                     \/ TimerFires(c))
          /\ WF_vars(DelayElapses(c))

\* the call is under way: an attempt is in flight or a backoff delay runs
UnderWay(call) == call.pc \in {"fetching", "delaying"}

\* the call has given its caller a returned value or a thrown error
Delivered(call) == call.pc = "done" /\ call.result.kind \in {"return", "throw"}

\* C25: every call that is under way is eventually delivered, as a returned
\* value or as a thrown error; and whenever the last attempt made has failed,
\* what the caller receives is a thrown error, never a returned value.
C25_NothingSwallowed ==
    /\ \A c \in Slots : UnderWay(calls[c]) ~> Delivered(calls[c])
    /\ [](\A c \in Slots :
            (calls[c].pc = "done" /\ calls[c].attemptResult.kind = "throw")
                => calls[c].result.kind = "throw")

\* a call whose three attempts all failed has been delivered as a thrown
\* error
C25_Witness ==
    \E c \in Slots :
        /\ Delivered(calls[c])
        /\ Attempts(calls[c]) = 3
        /\ calls[c].attemptResult.kind = "throw"
        /\ calls[c].result.kind = "throw"

-----------------------------------------------------------------------------
(* C26 *)

\* the fetch of the last attempt was rejected, and not by an abort
FetchRejected(call) ==
    /\ AttemptEnded(call)
    /\ call.last.t = "throw"
    /\ call.last.error # AbortError

\* C26: when fetch rejects with an Error whose message contains "CORS" or
\* "Network request failed", the attempt throws a plain Error whose message
\* is "Network error: Unable to reach" followed by the client's base
\* address (the configured one, without its trailing slash); with any other
\* Error that is not an abort, the attempt throws that very error; with a
\* value that is not an Error, it throws the plain Error "An unexpected
\* error occurred".
C26_FetchErrorsNormalized ==
    \A c \in Slots :
        FetchRejected(calls[c]) =>
            LET err == calls[c].last.error
                e == calls[c].attemptResult.error
            IN  /\ calls[c].attemptResult.kind = "throw"
                /\ IF err.class \notin ErrorClasses
                   THEN e = [class |-> "Error", name |-> "Error",
                             message |-> <<"An", "unexpected", "error", "occurred">>]
                   ELSE IF \/ Includes(err.message, <<"CORS">>)
                           \/ Includes(err.message, <<"Network", "request", "failed">>)
                   THEN /\ e.class = "Error"
                        /\ IsPrefix(<<"Network", "error", ":", "Unable", "to", "reach">>
                                    \o BaseURL(config) \o <<".">>, e.message)
                   ELSE e = err

\* under the configured base address "http://api/", a fetch blocked by the
\* CORS policy gave "Network error: Unable to reach http://api."
C26_Witness ==
    \E c \in Slots :
        /\ FetchRejected(calls[c])
        /\ config.baseURL = <<"http://api", "/">>
        /\ Includes(calls[c].last.error.message, <<"CORS">>)
        /\ IsPrefix(<<"Network", "error", ":", "Unable", "to", "reach", "http://api", ".">>,
                    calls[c].attemptResult.error.message)

-----------------------------------------------------------------------------
(* C27 *)

TokenTargets == {"facade", "auth", "users"}

\* C27: on a wrapper, getToken() and getRefreshToken() return undefined
\* before any token was set; right after setToken(t) getToken() returns t and
\* right after clearToken() undefined, and likewise setRefreshToken(t),
\* clearRefreshToken() and getRefreshToken(); the accessors' values change
\* only by a token method or by the settling of a call; and no step of the
\* access-token methods changes a refresh token, nor a step of the
\* refresh-token methods an access token.
C27_TokenFieldsIndependent ==
    /\ \A target \in TokenTargets :
          GetToken(token, target) = Undefined /\ GetRefreshToken(refreshToken, target) = Undefined
    /\ [][/\ \A target \in TokenTargets :
                /\ \A t \in AccessTokens :
                      SetToken(target, t) =>
                         GetToken(token', target) = t /\ refreshToken' = refreshToken
                /\ ClearToken(target) =>
                      GetToken(token', target) = Undefined /\ refreshToken' = refreshToken
                /\ \A t \in RefreshTokens :
                      SetRefreshToken(target, t) =>
                         GetRefreshToken(refreshToken', target) = t /\ token' = token
                /\ ClearRefreshToken(target) =>
                      GetRefreshToken(refreshToken', target) = Undefined /\ token' = token
          /\ calls' = calls =>
                /\ token' # token => refreshToken' = refreshToken
                /\ refreshToken' # refreshToken => token' = token]_vars

\* after token methods called on client.users itself, client.users holds a
\* refresh token and no access token, while client.auth holds the token T1
C27_Witness ==
    /\ usersDirect
    /\ GetToken(token, "users") = Undefined
    /\ GetRefreshToken(refreshToken, "users") = Str(<<"R2">>)
    /\ GetToken(token, "auth") = Str(<<"T1">>)

-----------------------------------------------------------------------------
(* C28 *)

\* the last attempt of the call, made outside test mode, returned
Succeeded(call) ==
    /\ ~call.isTestEnv
    /\ AttemptEnded(call)
    /\ OfLastAttempt(call).kind = "return"

\* C28: outside test mode, an attempt that succeeds ends its request():
\* request() returns the envelope of that attempt, not an earlier error, and
\* the verb method the envelope's data; the delays that were waited are one
\* fewer than the attempts made, 1000 ms then 2000 ms, so that a 5xx
\* followed by a success is 2 attempts and one delay of 1000 ms; and once the
\* call has ended no attempt and no delay of it follows.
C28_FirstSuccessEndsRequest ==
    /\ [](\A c \in Slots :
            Succeeded(calls[c]) =>
                /\ calls[c].pc = "done"
                /\ calls[c].attemptResult = OfLastAttempt(calls[c])
                /\ calls[c].op \in VerbOps =>
                      calls[c].result = Return(Prop(OfLastAttempt(calls[c]).value, "data"))
                /\ Len(Delays(calls[c])) = Attempts(calls[c]) - 1
                /\ IsPrefix(Delays(calls[c]), <<1000, 2000>>))
    /\ [][\A c \in Slots :
            calls[c].pc = "done" => calls'[c] \in {calls[c], IdleCall}]_vars

\* a 5xx followed by a success: 2 attempts, one delay of 1000 ms, and the
\* caller has the data of the envelope
C28_Witness ==
    \E c \in Slots :
        /\ Succeeded(calls[c])
        /\ Attempts(calls[c]) = 2
        /\ Delays(calls[c]) = <<1000>>
        /\ calls[c].lastError # Undefined
        /\ InstanceOfAPIError(calls[c].lastError)
        /\ calls[c].lastError.statusCode >= 500
        /\ calls[c].result = Return(Str(<<"d">>))

-----------------------------------------------------------------------------
(* C29 *)

\* new Error('Request failed after retries')
RequestFailedAfterRetries ==
    [class |-> "Error", name |-> "Error",
     message |-> <<"Request", "failed", "after", "retries">>]

\* C29: the throw after the retry loop is never executed and its error never
\* seen: no call has taken the fallback, no delay is waited after the third
\* attempt (from where the loop would run out), and no caller receives the
\* error "Request failed after retries".
C29_FallbackUnreachable ==
    \A c \in Slots :
        /\ Events(calls[c], "fallback") = <<>>
        /\ calls[c].pc = "delaying" => calls[c].attempt < MaxRetries - 1
        /\ calls[c].result # Throw(RequestFailedAfterRetries)
        /\ calls[c].attemptResult # Throw(RequestFailedAfterRetries)

\* a call has left the loop from its third attempt, by the rethrow of a
\* retryable network error
C29_Witness ==
    \E c \in Slots :
        /\ calls[c].pc = "done"
        /\ calls[c].attempt = MaxRetries - 1
        /\ calls[c].log[Len(calls[c].log)].e = "attempt"
        /\ calls[c].result.kind = "throw"
        /\ calls[c].result.error.class = "TypeError"
        /\ calls[c].result.error.message = <<"fetch", "failed">>

-----------------------------------------------------------------------------
(* C30 *)

\* this step is a logout whose remote call resolved
LogoutResolves(c) ==
    /\ Settles(c)
    /\ calls[c].op = "logout"
    /\ calls'[c].result.kind = "return"

\* this step is a login, register or refresh whose remote call resolved
AuthCallResolves(c) ==
    /\ Settles(c)
    /\ calls[c].op \in {"login", "register", "refresh"}
    /\ calls'[c].result.kind = "return"

\* a logout that resolves leaves both tokens of every wrapper undefined,
\* whatever they were before (undefined already, after an earlier logout);
\* and a token that is undefined stays so until a setToken or a resolved
\* login, register or refresh
LogoutIdempotent(c) ==
    /\ LogoutResolves(c) =>
          /\ token' = AllWrappers(Undefined)
          /\ refreshToken' = AllWrappers(Undefined)
    /\ \A w \in Wrappers :
          (token[w] = Undefined /\ token'[w] # Undefined) =>
              \/ calls' = calls
              \/ \E d \in Slots : AuthCallResolves(d)

\* C30 as stated: a logout that resolves leaves both tokens undefined however
\* many logouts came before; an attempt started while the token is undefined
\* carries no Authorization header; and once a token has been set again an
\* attempt carries Authorization: Bearer of it.  Violated by a request that
\* brings an Authorization header of its own after a logout, and by
\* setToken("") after a logout.
C30_NoAuthorizationAfterLogout ==
    [][\A c \in Slots :
          /\ LogoutIdempotent(c)
          /\ AttemptStarts(c) =>
                LET tok == token[Api(calls'[c])]
                    h == calls'[c].sent.headers
                IN  IF tok = Undefined
                    THEN "Authorization" \notin DOMAIN h
                    ELSE /\ "Authorization" \in DOMAIN h
                         /\ h["Authorization"] = BearerOf(tok)]_vars

\* C30, amended: a logout that resolves leaves both tokens undefined however
\* many logouts came before; an attempt started while the token is undefined
\* (or the empty string) carries no Bearer header of a token, only the
\* Authorization header the caller supplied, if any; and once a non-empty
\* token has been set again an attempt carries Authorization: Bearer of it.
C30_NoBearerAfterLogout ==
    [][\A c \in Slots :
          /\ LogoutIdempotent(c)
          /\ AttemptStarts(c) =>
                LET tok == token[Api(calls'[c])]
                    h == calls'[c].sent.headers
                    own == CallerHeaders(calls'[c])
                IN  IF Truthy(tok)
                    THEN /\ "Authorization" \in DOMAIN h
                         /\ h["Authorization"] = BearerOf(tok)
                    ELSE \A k \in DOMAIN h :
                            k = "Authorization" =>
                               (k \in DOMAIN own /\ h[k] = own[k])]_vars

\* a logout has resolved: no wrapper holds an access token or a refresh
\* token, client.users included, on which token methods had been called
C30_Witness ==
    \E c \in Slots :
        /\ calls[c].op = "logout"
        /\ calls[c].pc = "done"
        /\ calls[c].result.kind = "return"
        /\ usersDirect
        /\ token = AllWrappers(Undefined)
        /\ refreshToken = AllWrappers(Undefined)

-----------------------------------------------------------------------------
(* C31 *)

\* this step starts a retry of call c: its backoff delay has elapsed
RetryStarts(c) == calls[c].pc = "delaying" /\ calls'[c].pc = "fetching"

\* the attempt that failed before the delay was sent with a Bearer header
SentWithBearer(call) ==
    /\ "Authorization" \in DOMAIN call.sent.headers
    /\ Head(call.sent.headers["Authorization"]) = "Bearer"

\* C31 as stated: the attempt that starts after a backoff delay carries the
\* token as it is then, not as it was for the attempt before:
\* Authorization: Bearer of the token when there is one, and no
\* Authorization header when the token the attempt before was sent with has
\* been cleared during the delay.  Violated by a call that brings an
\* Authorization header of its own: after clearToken() during the delay the
\* retry carries that header.
C31_RetryCarriesCurrentTokenOrNone ==
    [][\A c \in Slots :
          RetryStarts(c) =>
              LET tok == token[Api(calls[c])]
                  h == calls'[c].sent.headers
              IN  IF Truthy(tok)
                  THEN "Authorization" \in DOMAIN h /\ h["Authorization"] = BearerOf(tok)
                  ELSE SentWithBearer(calls[c]) => "Authorization" \notin DOMAIN h]_vars

\* C31, amended: the attempt that starts after a backoff delay carries the
\* token as it is then, whatever the attempt before carried: Authorization:
\* Bearer of the token when it is a non-empty string, and otherwise no
\* Bearer header, only the Authorization header the caller supplied, if any.
C31_RetryReadsTokenAgain ==
    [][\A c \in Slots :
          RetryStarts(c) =>
              LET tok == token[Api(calls[c])]
                  h == calls'[c].sent.headers
                  own == CallerHeaders(calls[c])
              IN  IF Truthy(tok)
                  THEN "Authorization" \in DOMAIN h /\ h["Authorization"] = BearerOf(tok)
                  ELSE /\ "Authorization" \in DOMAIN h <=> "Authorization" \in DOMAIN own
                       /\ "Authorization" \in DOMAIN h =>
                             h["Authorization"] = own["Authorization"]]_vars

\* the token was changed during a backoff delay: the attempt that failed
\* was sent with Bearer T1, the token is now T2 and the retry is to come
C31_Witness ==
    \E c \in Slots :
        /\ calls[c].pc = "delaying"
        /\ "Authorization" \in DOMAIN calls[c].sent.headers
        /\ calls[c].sent.headers["Authorization"] = <<"Bearer", "T1">>
        /\ token[Api(calls[c])] = Str(<<"T2">>)

-----------------------------------------------------------------------------
(* C32 *)

\* C32: the step in which a login resolves leaves the refresh token of every
\* wrapper as it was, whatever refresh_token the response carries, and makes
\* the access token of every wrapper the access_token of the response.
C32_LoginKeepsRefreshToken ==
    [][\A c \in Slots :
          (/\ Settles(c)
           /\ calls[c].op = "login"
           /\ calls'[c].result.kind = "return")
          => /\ \A w \in Wrappers : refreshToken'[w] = refreshToken[w]
             /\ \A w \in Wrappers :
                   token'[w] = Prop(calls'[c].result.value, "access_token")]_vars

\* a login whose response carried the refresh_token R1 has resolved: every
\* wrapper still holds the refresh token R2 of before, and the new access
\* token T1
C32_Witness ==
    \E c \in Slots :
        /\ calls[c].op = "login"
        /\ calls[c].pc = "done"
        /\ calls[c].result = Return(AuthResponse("T1", "R1"))
        /\ refreshToken = AllWrappers(Str(<<"R2">>))
        /\ token = AllWrappers(Str(<<"T1">>))

-----------------------------------------------------------------------------
(* C33 *)

\* the methods that are a plain verb call: forgotPassword, resetPassword,
\* verifyEmail and resendVerification (a post on client.auth) and the
\* operations of client.users (get, patch, delete)
PlainOps == VerbOps

\* C33: the step in which a call settles leaves the access token and the
\* refresh token of every wrapper as they were when the call is a login, a
\* register or a refresh whose remote call threw, and when it is a plain verb
\* call, whether it resolved or threw and whatever the response carried.
C33_TokensUntouched ==
    [][\A c \in Slots :
          (/\ Settles(c)
           /\ \/ /\ calls[c].op \in {"login", "register", "refresh"}
                 /\ calls'[c].attemptResult.kind = "throw"
              \/ calls[c].op \in PlainOps)
          => /\ token' = token
             /\ refreshToken' = refreshToken]_vars

\* a plain post has resolved with a body that carries an access_token and a
\* refresh_token, and no wrapper holds a token
C33_Witness ==
    \E c \in Slots :
        /\ calls[c].op = "post"
        /\ calls[c].pc = "done"
        /\ calls[c].result = Return(AuthResponse("T1", "R1"))
        /\ token = AllWrappers(Undefined)
        /\ refreshToken = AllWrappers(Undefined)

-----------------------------------------------------------------------------
(* C34 *)

\* one of the four token methods called on client.users itself
UsersTokenMethod ==
    \/ \E t \in AccessTokens : SetToken("users", t)
    \/ ClearToken("users")
    \/ \E t \in RefreshTokens : SetRefreshToken("users", t)
    \/ ClearRefreshToken("users")

\* C34: a setToken, clearToken, setRefreshToken or clearRefreshToken called
\* on the users wrapper leaves the token and the refresh token of the auth
\* wrapper, and what the facade's getToken() and getRefreshToken() return,
\* as they were.
C34_UsersWritesStayLocal ==
    [][UsersTokenMethod
          => /\ token'["auth"] = token["auth"]
             /\ refreshToken'["auth"] = refreshToken["auth"]
             /\ FacadeGetToken' = FacadeGetToken
             /\ FacadeGetRefreshToken' = FacadeGetRefreshToken]_vars

\* a token method has been called on users, and the two wrappers hold
\* different access tokens, the facade returning the one of auth
C34_Witness ==
    /\ usersDirect
    /\ token["users"] = Str(<<"T1">>)
    /\ token["auth"] = Str(<<"T2">>)
    /\ FacadeGetToken = Str(<<"T2">>)
    /\ GetToken(token, "users") # GetToken(token, "auth")

-----------------------------------------------------------------------------
(* C35 *)

\* the attempt that ended last threw the error that the catch block makes of
\* a CORS or "Network request failed" failure
ThrewNormalizedNetworkError(call) ==
    /\ AttemptEnded(call)
    /\ call.attemptResult.kind = "throw"
    /\ call.attemptResult.error.class = "Error"
    /\ IsPrefix(<<"Network", "error", ":", "Unable", "to", "reach">>,
                call.attemptResult.error.message)

\* C35: an error that an attempt has normalized to "Network error: Unable
\* to reach ..." is retryable for the retry policy; outside test mode such
\* an error ends a call only on its third attempt, the call then having been
\* attempted exactly three times and its caller getting that error, and on
\* an earlier attempt it is followed by a backoff delay.
C35_NormalizedNetworkErrorRetried ==
    \A c \in Slots :
        ThrewNormalizedNetworkError(calls[c]) =>
            /\ IsRetryableError(calls[c].attemptResult.error)
            /\ ~calls[c].isTestEnv =>
                  IF calls[c].pc = "done"
                  THEN /\ Attempts(calls[c]) = MaxRetries
                       /\ calls[c].log = BackoffSchedule
                       /\ calls[c].result = calls[c].attemptResult
                  ELSE /\ calls[c].pc = "delaying"
                       /\ Attempts(calls[c]) < MaxRetries

\* outside test mode a call has ended on its third attempt, whose fetch was
\* blocked by the CORS policy, with the normalized error
C35_Witness ==
    \E c \in Slots :
        /\ calls[c].pc = "done"
        /\ ~calls[c].isTestEnv
        /\ ThrewNormalizedNetworkError(calls[c])
        /\ calls[c].last = Rejected([class |-> "TypeError", name |-> "TypeError",
                                     message |-> <<"blocked", "by", "CORS", "policy">>])
        /\ Attempts(calls[c]) = 3
        /\ calls[c].result = calls[c].attemptResult

-----------------------------------------------------------------------------
(* C36 *)

\* call d is a `kind` call that has resolved and has not been collected
HasResolved(d, kind) ==
    /\ calls[d].op = kind
    /\ calls[d].pc = "done"
    /\ calls[d].result.kind = "return"

\* C36: with a login and a logout on the same client, the one whose
\* response is processed last decides the tokens: a logout that resolves
\* after the login has resolved clears the access token and the refresh
\* token on every wrapper, the login's new token included, and a login that
\* resolves after the logout has resolved leaves its access_token on every
\* wrapper.
C36_LastResponseDecides ==
    [][\A c, d \in Slots :
          c # d =>
             /\ (LogoutResolves(c) /\ HasResolved(d, "login"))
                   => /\ token' = AllWrappers(Undefined)
                      /\ refreshToken' = AllWrappers(Undefined)
             /\ (AuthCallResolves(c) /\ HasResolved(d, "logout"))
                   => token' = AllWrappers(Prop(calls'[c].result.value, "access_token"))]_vars

\* a login has resolved with the access token T1, a logout on the same
\* client has resolved too, and no wrapper holds a token
C36_Witness ==
    \E c, d \in Slots :
        /\ c # d
        /\ HasResolved(d, "login")
        /\ calls[d].result = Return(AuthResponse("T1", "R1"))
        /\ HasResolved(c, "logout")
        /\ token = AllWrappers(Undefined)
        /\ refreshToken = AllWrappers(Undefined)

-----------------------------------------------------------------------------
(* C37 *)

\* what executeRequest makes of a 2xx body that fails its envelope test
WrappedBody(body) == Obj([success |-> Bool(TRUE), data |-> body, timestamp |-> NowISO])

\* the body passes the envelope test of executeRequest
HasDataAndSuccess(body) ==
    IsNonNullObject(body) /\ HasField(body, "data") /\ HasField(body, "success")

\* the attempt that ended last got a 2xx JSON response with a parsable body
GotParsable2xx(call) == AttemptEnded(call) /\ GotOkJson(call)

-----------------------------------------------------------------------------
(* C38 *)

\* C38: outside test mode, an attempt answered with a status in [500, 599]
\* and a content type that is missing or not JSON ends the call at once: it
\* throws the plain Error "Invalid response format: ...", which is not
\* retryable and carries no status code, no delay follows it, and when it
\* was the first attempt the call has been attempted exactly once.  Violated
\* by a content type whose text contains "CORS": the error becomes the
\* network error, which is retried.
C38_NonJson5xxNotRetried ==
    \A c \in Slots :
        (/\ ~calls[c].isTestEnv
         /\ GotNonJson(calls[c])
         /\ ServerErrorStatus(calls[c].last.status))
        => /\ calls[c].pc = "done"
           /\ calls[c].attemptResult.kind = "throw"
           /\ ~InstanceOfAPIError(calls[c].attemptResult.error)
           /\ IsPrefix(<<"Invalid", "response", "format:">>,
                       calls[c].attemptResult.error.message)
           /\ ~IsRetryableError(calls[c].attemptResult.error)
           /\ calls[c].result = calls[c].attemptResult
           /\ calls[c].attempt = 0 => calls[c].log = <<[e |-> "attempt", ms |-> 0]>>

-----------------------------------------------------------------------------
(* C39 *)

\* C39: outside test mode, when an attempt gets a non-2xx JSON response
\* whose body has message and statusCode, the error it throws has the
\* transport status as statusCode and the body, with the body's own
\* statusCode, as response; and the transport status alone decides the
\* retry: with a status of 500 or more the attempt is followed by a delay
\* unless it was the third, with a lower status the call ends on that
\* attempt, whatever the body's statusCode says.
C39_RetryByTransportStatus ==
    \A c \in Slots :
        (~calls[c].isTestEnv /\ GotErrorShaped(calls[c])) =>
            LET error == calls[c].attemptResult.error
                status == calls[c].last.status
            IN  /\ AttemptThrewTyped(calls[c])
                /\ error.statusCode = status
                /\ error.response = calls[c].last.json
                /\ Prop(error.response, "statusCode") = Prop(calls[c].last.json, "statusCode")
                /\ IF status >= 500
                   THEN calls[c].pc = "done" => Attempts(calls[c]) = MaxRetries
                   ELSE /\ calls[c].pc = "done"
                        /\ calls[c].result = calls[c].attemptResult

\* outside test mode the first attempt of a call was answered with the
\* transport status 500 and a body whose statusCode is 400, and a delay is
\* under way
C39_Witness ==
    \E c \in Slots :
        /\ ~calls[c].isTestEnv
        /\ calls[c].pc = "delaying"
        /\ calls[c].attempt = 0
        /\ GotErrorShaped(calls[c])
        /\ calls[c].last.status = 500
        /\ Prop(calls[c].last.json, "statusCode") = Num(400)
        /\ calls[c].attemptResult.error.statusCode = 500
        /\ Prop(calls[c].attemptResult.error.response, "statusCode") = Num(400)

-----------------------------------------------------------------------------
(* C40 *)

\* this step ends an attempt of call c, outside test mode and before its
\* third, with a typed error of status 500 or more or with a retryable
\* network error
FailsRetryably(c) ==
    /\ calls[c].pc = "fetching"
    /\ ~calls[c].isTestEnv
    /\ calls[c].attempt < MaxRetries - 1
    /\ calls'[c].pc \in {"delaying", "done"}
    /\ calls'[c].attemptResult.kind = "throw"
    /\ IsRetryableError(calls'[c].attemptResult.error)

\* C40: whatever the verb, an attempt that fails retryably before the third
\* is followed by a delay, and the attempt that starts after the delay gives
\* fetch the same url, method and body as the one before, under the same
\* timeout, the call keeping its operation, body and options.
C40_RetryResendsSameRequest ==
    [][\A c \in Slots :
          /\ FailsRetryably(c) => calls'[c].pc = "delaying"
          /\ RetryStarts(c) =>
                /\ calls'[c].sent.url = calls[c].sent.url
                /\ calls'[c].sent.method = calls[c].sent.method
                /\ calls'[c].sent.body = calls[c].sent.body
                /\ calls'[c].timerMs = calls[c].timerMs
                /\ calls'[c].op = calls[c].op
                /\ calls'[c].body = calls[c].body
                /\ calls'[c].options = calls[c].options]_vars

\* the third attempt of a post is in flight, with the serialized body of
\* the call given to fetch again
C40_Witness ==
    \E c \in Slots :
        /\ calls[c].op = "post"
        /\ calls[c].pc = "fetching"
        /\ calls[c].attempt = 2
        /\ Attempts(calls[c]) = 3
        /\ calls[c].body = Dto
        /\ calls[c].sent.method = Method(calls[c])
        /\ Ops[calls[c].op].verb = "POST"
        /\ calls[c].sent.body = JsonStringify(Dto)
        /\ calls[c].sent.body # Undefined
====
